---------------------------- MODULE Spec2Model ----------------------------
(***************************************************************************)
(* A model of sky-lynx: the period aggregator, the trend engine and the    *)
(* free-text recommendation extractor.                                     *)
(*                                                                         *)
(* Python values are modelled as follows.                                  *)
(*   str            a TLA+ string                                          *)
(*   list           a sequence                                             *)
(*   dict, Counter  a function whose DOMAIN is the set of keys             *)
(*   Optional[T]    None == <<>>, a present value v is Some(v) == <<v>>    *)
(*   pydantic model a record with the model's fields                       *)
(*   float          an IEEE-754 binary64 value (see the Float section)     *)
(***************************************************************************)
EXTENDS Integers, Sequences, FiniteSets, TLC

VARIABLES
    agg_pc,         \* "idle" before the call of aggregate_weekly_metrics, "done" after
    agg_sessions,   \* the argument `sessions`
    agg_period,     \* the arguments <<period_start, period_end>>
    metrics,        \* the WeeklyMetrics returned (None before the call)
    trend_pc,       \* "idle" before a function of the trend engine is called, "done" after
    trend_call,     \* the call made: <<name of the function, its arguments ...>>
    trend_result,   \* what the call returned
    rec_pc,         \* parse_recommendations: "idle", "scan" (in the loop) or "done"
    lines,          \* response_text.split("\n")
    line_no,        \* the index in lines of the line the loop reads next
    in_recommendations,
    current_rec,    \* the Recommendation in progress, or None
    recommendations, \* the list returned
    split_pc,       \* _parse_response_sections: "idle", "scan" or "done"
    split_lines,    \* response.split("\n")
    split_no,       \* the index in split_lines of the line the loop reads next
    sections,       \* the dict returned
    current_section, \* the name of the section being collected, or None
    current_content, \* the lines collected for it
    load_pc,        \* load_sessions_for_period: "idle", "scan", "done" or "raised"
    files,          \* the files facets_dir.glob("*.json") yields, in its order
    file_no,        \* the index in files of the file the loop reads next
    load_sessions,  \* the list of sessions loaded so far
    digest_pc,      \* build_outcome_digest: "idle" before the call, "done" after
    digest_records, \* the argument `records`
    digest,         \* the str returned (None before the call)
    main_pc,        \* main or analyze_insights: "idle", then the step reached, "done"
    main_args,      \* the call: its flags, the keys given and set, what fails around it
    outcome_digest, \* run_analysis: the local of that name
    steps,          \* the steps the run has completed, in order
    requests,       \* the user prompts sent to the analysis service, in order
    analysis_result, \* the AnalysisResult returned by analyze_insights, or None
    raised,         \* the exception that left the step, or None
    exit_code,      \* what main returned, or None
    report_calls,   \* the calls of the report writer made so far
    disk,           \* the files of output_dir: name |-> text
    store,          \* the recommendations of the external store, in order
    report_return,  \* the last call: the exception raised and the value returned
    week_pc,        \* load_weekly_analysis: "idle" before the call, "done" after
    week_now,       \* what datetime.now() returned
    week_mtime,     \* the modification time of the session file
    week_counted,   \* the windows whose load found the file
    week_bounds     \* (start_date, end_date) of the current and of the previous week

aggVars == <<agg_pc, agg_sessions, agg_period, metrics>>

trendVars == <<trend_pc, trend_call, trend_result>>

recVars == <<rec_pc, lines, line_no, in_recommendations, current_rec, recommendations>>

splitVars ==
    <<split_pc, split_lines, split_no, sections, current_section, current_content>>

loadVars == <<load_pc, files, file_no, load_sessions>>

digestVars == <<digest_pc, digest_records, digest>>

mainVars ==
    <<main_pc, main_args, outcome_digest, steps, requests, analysis_result, raised,
      exit_code>>

reportVars == <<report_calls, disk, store, report_return>>

weekVars == <<week_pc, week_now, week_mtime, week_counted, week_bounds>>

\* The variables of the components that follow the session loader.
laterVars == <<digestVars, mainVars, reportVars, weekVars>>

\* The variables of the components up to the session loader.
earlierVars == <<aggVars, trendVars, recVars, splitVars, loadVars>>

vars == <<earlierVars, laterVars>>

None == <<>>
Some(v) == <<v>>

(***************************************************************************)
(* Bounds of the model.                                                    *)
(***************************************************************************)
\* The longest list of sessions handed to aggregate_weekly_metrics.
MaxSessions == 3

\* The largest argument of calculate_percentage_change.
MaxValue == 12

\* The largest counts of the satisfaction counters handed to
\* calculate_satisfaction_trend: of likely_satisfied, neutral, likely_unsatisfied
\* and of a label that carries no weight.
MaxSatisfied == 4
MaxNeutral == 7
MaxUnsatisfied == 1
MaxOther == 1

\* The largest total_sessions of a WeeklyMetrics handed to analyze_trends.
MaxTotal == 3

\* The longest lists of sessions load_weekly_analysis has loaded for the current
\* and for the previous week.
MaxCurrentSessions == 1
MaxPreviousSessions == 1

\* The most lines of a response text handed to parse_recommendations.
MaxLines == 4

\* The most numbered items of a response text of the clean layout.
MaxItems == 5

\* The most lines after the heading of a response text that opens with the
\* recommendations heading.
MaxBodyLines == 3

\* The most lines of a response text handed to _parse_response_sections.
MaxSplitLines == 4

\* The most files of the facets directory.
MaxFiles == 2

\* The latest modification time of a file.
MaxMtime == 3

\* The longest list of records handed to build_outcome_digest.
MaxRecords == 3

\* The longest list of recommendations handed to the report writer.
MaxRecommendations == 2

\* The calls of the report writer in one behaviour.
MaxReportCalls == 2

(***************************************************************************)
(* dict and collections.Counter.                                           *)
(***************************************************************************)
EmptyDict == [k \in {} |-> 0]

Dict1(k, v) == [x \in {k} |-> v]

Dict2(k1, v1, k2, v2) == [x \in {k1, k2} |-> IF x = k1 THEN v1 ELSE v2]

\* Counter.__missing__: a key that is not present reads as 0.
CounterGet(c, k) == IF k \in DOMAIN c THEN c[k] ELSE 0

\* sum(counter.values())
RECURSIVE SumOver(_, _)
SumOver(c, keys) ==
    IF keys = {} THEN 0
    ELSE LET k == CHOOSE x \in keys : TRUE
         IN  c[k] + SumOver(c, keys \ {k})

SumValues(c) == SumOver(c, DOMAIN c)

\* `counter[k] += n` as a bug would write it: `counter[k] = n`.
CounterOverwrite(c, k, n) ==
    [x \in DOMAIN c \cup {k} |-> IF x = k THEN n ELSE c[x]]

\* `counter[k] += n`: reads the key (0 when missing), adds, stores the key.
CounterAdd(c, k, n) ==
    [x \in DOMAIN c \cup {k} |-> IF x = k THEN CounterGet(c, k) + n ELSE c[x]]

\* `for k, count in d.items(): counter[k] += count`, the items in any order.
RECURSIVE MergeOver(_, _, _)
MergeOver(c, d, keys) ==
    IF keys = {} THEN c
    ELSE LET k == CHOOSE x \in keys : TRUE
         IN  MergeOver(CounterAdd(c, k, d[k]), d, keys \ {k})

\* The merge as `counter.update(d)` of a plain dict would do it: the count of a
\* key of d replaces the count so far.
MergeItemsOverwrite(c, d) ==
    [x \in DOMAIN c \cup DOMAIN d |-> IF x \in DOMAIN d THEN d[x] ELSE c[x]]

MergeItems(c, d) == MergeOver(c, d, DOMAIN d)

\* `if field: counter[field] += 1`, without the test for the empty string.
IncrAlways(c, field) == CounterAdd(c, field, 1)

\* `if field: counter[field] += 1`
IncrIfNonEmpty(c, field) == IF field # "" THEN CounterAdd(c, field, 1) ELSE c

(***************************************************************************)
(* float: IEEE-754 binary64, round to nearest, ties to even.               *)
(*                                                                         *)
(* A natural number is a sequence of bits, most significant first.  A      *)
(* float is zero (FZero) or [sign, man, exp] with man a sequence of Prec   *)
(* bits whose first bit is 1: its value is (-1)^sign * man * 2^exp.  The   *)
(* values of the program lie between 2^-60 and 2^60, so that subnormal     *)
(* numbers, infinities and NaN never arise and are not modelled.           *)
(***************************************************************************)
\* The bits of the significand of a binary64.
Prec == 53

Zeros(n) == [i \in 1..n |-> 0]

StripZeros(b) ==
    LET ones == { i \in 1..Len(b) : b[i] = 1 }
    IN  IF ones = {} THEN <<>>
        ELSE SubSeq(b, CHOOSE i \in ones : \A j \in ones : i <= j, Len(b))

RECURSIVE NatBits(_)
NatBits(n) == IF n = 0 THEN <<>> ELSE Append(NatBits(n \div 2), n % 2)

PadTo(b, n) == Zeros(n - Len(b)) \o b

MaxOf(x, y) == IF x >= y THEN x ELSE y

MinOf(x, y) == IF x <= y THEN x ELSE y

Abs(x) == IF x < 0 THEN -x ELSE x

\* Sums, differences and products of bit sequences are computed on limbs of
\* LimbBits bits, so that no intermediate value exceeds 31 bits.
LimbBits == 15

LimbBase == 2^LimbBits

\* The number whose bits are b[lo..hi].
RECURSIVE ChunkVal(_, _, _)
ChunkVal(b, lo, hi) == IF lo > hi THEN 0 ELSE 2 * ChunkVal(b, lo, hi - 1) + b[hi]

ToLimbs(b) ==
    LET n == (Len(b) + LimbBits - 1) \div LimbBits
        padded == PadTo(b, n * LimbBits)
    IN  [j \in 1..n |-> ChunkVal(padded, (j - 1) * LimbBits + 1, j * LimbBits)]

FromLimbs(l) ==
    StripZeros([i \in 1..(LimbBits * Len(l)) |->
                    (l[(i - 1) \div LimbBits + 1]
                        \div 2^(LimbBits - 1 - ((i - 1) % LimbBits))) % 2])

\* x + y on limbs 1..i of two limb sequences of equal length, carry c coming in.
RECURSIVE AddLimbs(_, _, _, _)
AddLimbs(x, y, i, c) ==
    IF i = 0 THEN (IF c > 0 THEN <<c>> ELSE <<>>)
    ELSE LET t == x[i] + y[i] + c
         IN  Append(AddLimbs(x, y, i - 1, t \div LimbBase), t % LimbBase)

\* x - y (x >= y) on limbs 1..i, borrow c coming in.
RECURSIVE SubLimbs(_, _, _, _)
SubLimbs(x, y, i, c) ==
    IF i = 0 THEN <<>>
    ELSE LET t == x[i] - y[i] - c
         IN  Append(SubLimbs(x, y, i - 1, IF t < 0 THEN 1 ELSE 0), t % LimbBase)

\* x * k on limbs 1..i for a natural k < LimbBase, carry c coming in.
RECURSIVE MulLimbs(_, _, _, _)
MulLimbs(x, k, i, c) ==
    IF i = 0 THEN (IF c > 0 THEN <<c>> ELSE <<>>)
    ELSE LET t == x[i] * k + c
         IN  Append(MulLimbs(x, k, i - 1, t \div LimbBase), t % LimbBase)

BitsAdd(a, b) ==
    LET n == MaxOf(Len(a), Len(b))
        x == ToLimbs(PadTo(a, n))
        y == ToLimbs(PadTo(b, n))
    IN  FromLimbs(AddLimbs(x, y, Len(x), 0))

BitsSub(a, b) ==
    LET n == MaxOf(Len(a), Len(b))
        x == ToLimbs(PadTo(a, n))
        y == ToLimbs(PadTo(b, n))
    IN  FromLimbs(SubLimbs(x, y, Len(x), 0))

\* bits * k for a natural k < LimbBase.
MulSmall(b, k) ==
    LET x == ToLimbs(b)
    IN  FromLimbs(MulLimbs(x, k, Len(x), 0))

\* -1, 0 or 1 as a < b, a = b or a > b (both without leading zeros).
BitsCmp(a, b) ==
    IF Len(a) # Len(b) THEN (IF Len(a) < Len(b) THEN -1 ELSE 1)
    ELSE LET diff == { i \in 1..Len(a) : a[i] # b[i] }
         IN  IF diff = {} THEN 0
             ELSE LET i == CHOOSE x \in diff : \A y \in diff : x <= y
                  IN  IF a[i] < b[i] THEN -1 ELSE 1

\* 2^i modulo d, by repeated squaring.
RECURSIVE Pow2Mod(_, _)
Pow2Mod(i, d) ==
    IF i = 0 THEN 1 % d
    ELSE LET h == Pow2Mod(i \div 2, d)
             sq == (h * h) % d
         IN  IF i % 2 = 1 THEN (2 * sq) % d ELSE sq

\* The remainder of n * 2^i divided by d.
RemainderAt(n, d, i) == ((n % d) * Pow2Mod(i, d)) % d

\* The quotient of n * 2^k divided by d, by long division: the bits of n \div d,
\* then bit i is the quotient of twice the remainder before it.
QuotientBits(n, d, k) ==
    NatBits(n \div d) \o [i \in 1..k |-> (2 * RemainderAt(n, d, i - 1)) \div d]

FZero == [sign |-> 0, man |-> <<>>, exp |-> 0]

\* The float nearest to (-1)^sign * (bits + s) * 2^exp, where bits has no leading
\* zero and 0 <= s < 1 is zero iff sticky is FALSE: ties go to the even significand.
Round(sign, bits, exp, sticky) ==
    LET n == Len(bits) IN
    IF n = 0 THEN FZero
    ELSE IF n <= Prec
    THEN [sign |-> sign, man |-> bits \o Zeros(Prec - n), exp |-> exp - (Prec - n)]
    ELSE LET top == SubSeq(bits, 1, Prec)
             half == bits[Prec + 1] = 1
             more == sticky \/ \E i \in (Prec + 2)..n : bits[i] = 1
             up == half /\ (more \/ top[Prec] = 1)
             inc == BitsAdd(top, <<1>>)
         IN  IF ~up THEN [sign |-> sign, man |-> top, exp |-> exp + (n - Prec)]
             ELSE IF Len(inc) > Prec
             THEN [sign |-> sign, man |-> SubSeq(inc, 1, Prec), exp |-> exp + (n - Prec) + 1]
             ELSE [sign |-> sign, man |-> inc, exp |-> exp + (n - Prec)]

\* float(n) of an int.
FromInt(n) == Round(IF n < 0 THEN 1 ELSE 0, NatBits(Abs(n)), 0, FALSE)

\* The zero bits appended to a dividend, for a quotient of more than Prec + 2 bits
\* when the divisor is below 2^8.
DivExtraBits == Prec + 11

\* a / b of two ints (b # 0): the float nearest to the quotient.
IntDiv(a, b) ==
    IF a = 0 THEN FZero
    ELSE Round(IF (a < 0) # (b < 0) THEN 1 ELSE 0,
               StripZeros(QuotientBits(Abs(a), Abs(b), DivExtraBits)),
               -DivExtraBits,
               RemainderAt(Abs(a), Abs(b), DivExtraBits) # 0)

FNeg(x) == IF x = FZero THEN x ELSE [x EXCEPT !.sign = 1 - @]

\* The significands of two non-zero floats as naturals in units of 2^e,
\* e the smaller exponent.
Aligned(x, y) ==
    LET e == MinOf(x.exp, y.exp)
    IN  <<x.man \o Zeros(x.exp - e), y.man \o Zeros(y.exp - e), e>>

\* x + y
FAdd(x, y) ==
    IF x = FZero THEN y
    ELSE IF y = FZero THEN x
    ELSE LET al == Aligned(x, y)
             c == BitsCmp(al[1], al[2])
         IN  IF x.sign = y.sign THEN Round(x.sign, BitsAdd(al[1], al[2]), al[3], FALSE)
             ELSE IF c = 0 THEN FZero
             ELSE IF c > 0 THEN Round(x.sign, BitsSub(al[1], al[2]), al[3], FALSE)
             ELSE Round(y.sign, BitsSub(al[2], al[1]), al[3], FALSE)

\* x - y
FSub(x, y) == FAdd(x, FNeg(y))

\* x * k for a float x and an int k (k is converted to float, exactly).
FMulInt(x, k) ==
    IF x = FZero \/ k = 0 THEN FZero
    ELSE Round(IF (x.sign = 1) # (k < 0) THEN 1 ELSE 0,
               MulSmall(x.man, Abs(k)), x.exp, FALSE)

\* -1, 0 or 1 as x < y, x = y or x > y.
FCmp(x, y) ==
    LET sx == IF x = FZero THEN 0 ELSE IF x.sign = 1 THEN -1 ELSE 1
        sy == IF y = FZero THEN 0 ELSE IF y.sign = 1 THEN -1 ELSE 1
    IN  IF sx # sy THEN (IF sx < sy THEN -1 ELSE 1)
        ELSE IF sx = 0 THEN 0
        ELSE LET al == Aligned(x, y) IN sx * BitsCmp(al[1], al[2])

FGreater(x, y) == FCmp(x, y) = 1

FLess(x, y) == FCmp(x, y) = -1

(***************************************************************************)
(* SessionInsight and WeeklyMetrics.                                       *)
(***************************************************************************)
\* SessionInsight with every optional field at its default.
SessionInsight(id) ==
    [ session_id               |-> id,
      underlying_goal          |-> "",
      goal_categories          |-> EmptyDict,
      outcome                  |-> "",
      user_satisfaction_counts |-> EmptyDict,
      claude_helpfulness       |-> "",
      session_type             |-> "",
      friction_counts          |-> EmptyDict,
      friction_detail          |-> "",
      primary_success          |-> "",
      brief_summary            |-> "" ]

\* WeeklyMetrics(period_start=..., period_end=...): every other field defaulted.
WeeklyMetrics(period_start, period_end) ==
    [ period_start      |-> period_start,
      period_end        |-> period_end,
      total_sessions    |-> 0,
      outcomes          |-> EmptyDict,
      satisfaction      |-> EmptyDict,
      helpfulness       |-> EmptyDict,
      session_types     |-> EmptyDict,
      goal_categories   |-> EmptyDict,
      friction_counts   |-> EmptyDict,
      friction_details  |-> <<>>,
      primary_successes |-> EmptyDict,
      sessions          |-> <<>> ]

(***************************************************************************)
(* The sessions the model aggregates: the fixtures of the tests, and       *)
(* sessions with empty fields, zero counts, shared keys and a repeated     *)
(* friction detail.                                                        *)
(***************************************************************************)
SessionPool ==
    { [SessionInsight("test-session-123") EXCEPT
          !.underlying_goal = "Fix a bug",
          !.goal_categories = Dict2("debugging", 1, "feature", 2),
          !.outcome = "mostly_achieved",
          !.user_satisfaction_counts = Dict1("likely_satisfied", 2),
          !.claude_helpfulness = "essential",
          !.session_type = "iterative_refinement",
          !.friction_counts = Dict1("buggy_code", 1),
          !.friction_detail = "missing dependency",
          !.primary_success = "correct_code_edits",
          !.brief_summary = "Fixed the bug"],
      [SessionInsight("session-2") EXCEPT
          !.outcome = "partially_achieved",
          !.friction_counts = Dict1("context_overflow", 2),
          !.user_satisfaction_counts = Dict1("likely_satisfied", 1)],
      SessionInsight("session-3"),
      [SessionInsight("session-4") EXCEPT
          !.friction_detail = "Another issue occurred"],
      [SessionInsight("session-5") EXCEPT
          !.outcome = "mostly_achieved",
          !.user_satisfaction_counts = Dict2("likely_unsatisfied", 1, "neutral", 0),
          !.claude_helpfulness = "helpful",
          !.friction_detail = "missing dependency",
          !.primary_success = "correct_code_edits"],
      [SessionInsight("session-6") EXCEPT
          !.outcome = "not_achieved",
          !.goal_categories = Dict1("debugging", 3),
          !.session_type = "single_task",
          !.friction_counts = Dict2("buggy_code", 2, "context_overflow", 1)],
      [SessionInsight("session-7") EXCEPT
          !.user_satisfaction_counts = Dict2("neutral", 2, "likely_satisfied", 1),
          !.claude_helpfulness = "essential",
          !.session_type = "exploration",
          !.goal_categories = Dict1("feature", 1),
          !.primary_success = "good_explanations"] }

\* The (period_start, period_end) pairs, as day numbers.
PeriodPool == { <<0, 6>>, <<7, 13>> }

RECURSIVE SeqsUpTo(_, _)
SeqsUpTo(S, n) ==
    IF n = 0 THEN { <<>> }
    ELSE LET shorter == SeqsUpTo(S, n - 1)
         IN  shorter \cup { Append(q, x) : q \in { r \in shorter : Len(r) = n - 1 }, x \in S }

SessionLists == SeqsUpTo(SessionPool, MaxSessions)

(***************************************************************************)
(* aggregate_weekly_metrics.                                               *)
(***************************************************************************)
\* `if session.friction_detail: append`, without the test.
AppendDetailAlways(details, detail) == Append(details, detail)

\* `if session.friction_detail: metrics.friction_details.append(...)`
AppendDetail(details, detail) ==
    IF detail # "" THEN Append(details, detail) ELSE details

\* One iteration of `for session in sessions`.
AggregateSession(m, session) ==
    [m EXCEPT
        !.outcomes = IncrIfNonEmpty(@, session.outcome),
        !.satisfaction = MergeItems(@, session.user_satisfaction_counts),
        !.helpfulness = IncrIfNonEmpty(@, session.claude_helpfulness),
        !.session_types = IncrIfNonEmpty(@, session.session_type),
        !.goal_categories = MergeItems(@, session.goal_categories),
        !.friction_counts = MergeItems(@, session.friction_counts),
        !.friction_details = AppendDetail(@, session.friction_detail),
        !.primary_successes = IncrIfNonEmpty(@, session.primary_success)]

RECURSIVE AggregateLoop(_, _, _)
AggregateLoop(m, sessions, i) ==
    IF i > Len(sessions) THEN m
    ELSE AggregateLoop(AggregateSession(m, sessions[i]), sessions, i + 1)

\* The construction of the metrics before the loop, counting one session short.
NewMetricsShort(sessions, period_start, period_end) ==
    [WeeklyMetrics(period_start, period_end) EXCEPT
        !.total_sessions = IF Len(sessions) > 1 THEN Len(sessions) - 1 ELSE Len(sessions),
        !.sessions = sessions]

\* The construction of the metrics before the loop.
NewMetrics(sessions, period_start, period_end) ==
    [WeeklyMetrics(period_start, period_end) EXCEPT
        !.total_sessions = Len(sessions),
        !.sessions = sessions]

aggregate_weekly_metrics(sessions, period_start, period_end) ==
    AggregateLoop(NewMetrics(sessions, period_start, period_end), sessions, 1)

(***************************************************************************)
(* The aggregator called once, on any list of sessions.                    *)
(***************************************************************************)
InitAgg ==
    /\ agg_pc = "idle"
    /\ agg_sessions = <<>>
    /\ agg_period = <<0, 0>>
    /\ metrics = None

InitTrend ==
    /\ trend_pc = "idle"
    /\ trend_call = <<>>
    /\ trend_result = None

InitRec ==
    /\ rec_pc = "idle"
    /\ lines = <<>>
    /\ line_no = 0
    /\ in_recommendations = FALSE
    /\ current_rec = None
    /\ recommendations = <<>>

SectionNames == { "executive_summary", "friction_analysis", "whats_working" }

InitSplit ==
    /\ split_pc = "idle"
    /\ split_lines = <<>>
    /\ split_no = 0
    /\ sections = [ name \in SectionNames |-> "" ]
    /\ current_section = None
    /\ current_content = <<>>

InitLoad ==
    /\ load_pc = "idle"
    /\ files = <<>>
    /\ file_no = 0
    /\ load_sessions = <<>>

\* Nothing has been called yet.
InitDigest ==
    /\ digest_pc = "idle"
    /\ digest_records = <<>>
    /\ digest = None

InitMain ==
    /\ main_pc = "idle"
    /\ main_args = None
    /\ outcome_digest = None
    /\ steps = <<>>
    /\ requests = <<>>
    /\ analysis_result = None
    /\ raised = None
    /\ exit_code = None

InitReport ==
    /\ report_calls = <<>>
    /\ disk = [ name \in {} |-> "" ]
    /\ store = <<>>
    /\ report_return = [ raised |-> None, value |-> None ]

InitWeek ==
    /\ week_pc = "idle"
    /\ week_now = 0
    /\ week_mtime = 0
    /\ week_counted = {}
    /\ week_bounds = [ current |-> None, previous |-> None ]

Init ==
    /\ InitAgg /\ InitTrend /\ InitRec /\ InitSplit /\ InitLoad
    /\ InitDigest /\ InitMain /\ InitReport /\ InitWeek

Aggregate ==
    /\ agg_pc = "idle"
    /\ \E sessions \in SessionLists, period \in PeriodPool :
        /\ agg_sessions' = sessions
        /\ agg_period' = period
        /\ metrics' = Some(aggregate_weekly_metrics(sessions, period[1], period[2]))
    /\ agg_pc' = "done"
    /\ UNCHANGED <<trendVars, recVars, splitVars, loadVars, laterVars>>

NextAgg == Aggregate

SpecAgg == Init /\ [][NextAgg]_vars

(***************************************************************************)
(* The trend engine: calculate_percentage_change,                          *)
(* calculate_satisfaction_trend, analyze_trends, load_weekly_analysis.     *)
(***************************************************************************)
\* TrendAnalysis(current=..., previous=...): the computed fields defaulted.
TrendAnalysis(current, previous) ==
    [ current              |-> current,
      previous             |-> previous,
      session_count_change |-> FZero,
      friction_change      |-> FZero,
      satisfaction_trend   |-> "" ]

\* The percentage change without the distinction the guard makes: 0.0 whenever
\* previous is 0.
PercentageChangeZeroBase(current, previous) ==
    IF previous = 0 THEN FZero
    ELSE FMulInt(IntDiv(current - previous, previous), 100)

calculate_percentage_change(current, previous) ==
    IF previous = 0 THEN (IF current > 0 THEN FromInt(100) ELSE FZero)
    ELSE FMulInt(IntDiv(current - previous, previous), 100)

weights ==
    [k \in {"likely_satisfied", "neutral", "likely_unsatisfied"} |->
        CASE k = "likely_satisfied" -> 1
          [] k = "neutral" -> 0
          [] k = "likely_unsatisfied" -> -1]

\* sum(weights.get(k, 0) * v for k, v in counts.items())
RECURSIVE WeightedSum(_, _)
WeightedSum(counts, keys) ==
    IF keys = {} THEN 0
    ELSE LET k == CHOOSE x \in keys : TRUE
         IN  (IF k \in DOMAIN weights THEN weights[k] ELSE 0) * counts[k]
             + WeightedSum(counts, keys \ {k})

weighted_score(counts) ==
    LET total == SumValues(counts)
    IN  IF total = 0 THEN FZero
        ELSE IntDiv(WeightedSum(counts, DOMAIN counts), total)

\* The literal 0.1: the float nearest to one tenth.
Threshold == IntDiv(1, 10)

calculate_satisfaction_trend(current, previous) ==
    IF previous = None THEN "baseline"
    ELSE LET diff == FSub(weighted_score(current), weighted_score(previous[1]))
         IN  IF FGreater(diff, Threshold) THEN "improving"
             ELSE IF FLess(diff, FNeg(Threshold)) THEN "declining"
             ELSE "stable"

\* analyze_trends with the friction change computed from the number of friction
\* types instead of the number of friction events.
AnalyzeTrendsByTypes(current_metrics, previous_metrics) ==
    IF previous_metrics # None
    THEN [TrendAnalysis(current_metrics, previous_metrics) EXCEPT
            !.session_count_change =
                calculate_percentage_change(current_metrics.total_sessions,
                                            previous_metrics[1].total_sessions),
            !.friction_change =
                calculate_percentage_change(Cardinality(DOMAIN current_metrics.friction_counts),
                                            Cardinality(DOMAIN previous_metrics[1].friction_counts)),
            !.satisfaction_trend =
                calculate_satisfaction_trend(current_metrics.satisfaction,
                                             Some(previous_metrics[1].satisfaction))]
    ELSE [TrendAnalysis(current_metrics, previous_metrics) EXCEPT
            !.satisfaction_trend = "baseline"]

\* analyze_trends that compares with an empty previous week when there is none.
AnalyzeTrendsNoBaseline(current_metrics, previous_metrics) ==
    LET prev == IF previous_metrics # None THEN previous_metrics[1]
                ELSE WeeklyMetrics(0, 0)
    IN  [TrendAnalysis(current_metrics, previous_metrics) EXCEPT
            !.session_count_change =
                calculate_percentage_change(current_metrics.total_sessions,
                                            prev.total_sessions),
            !.friction_change =
                calculate_percentage_change(SumValues(current_metrics.friction_counts),
                                            SumValues(prev.friction_counts)),
            !.satisfaction_trend =
                calculate_satisfaction_trend(current_metrics.satisfaction,
                                             IF previous_metrics # None
                                             THEN Some(prev.satisfaction) ELSE None)]

\* `if previous_metrics:` a pydantic model is always true, so the test is
\* `previous_metrics is not None`.
analyze_trends(current_metrics, previous_metrics) ==
    IF previous_metrics # None
    THEN [TrendAnalysis(current_metrics, previous_metrics) EXCEPT
            !.session_count_change =
                calculate_percentage_change(current_metrics.total_sessions,
                                            previous_metrics[1].total_sessions),
            !.friction_change =
                calculate_percentage_change(SumValues(current_metrics.friction_counts),
                                            SumValues(previous_metrics[1].friction_counts)),
            !.satisfaction_trend =
                calculate_satisfaction_trend(current_metrics.satisfaction,
                                             Some(previous_metrics[1].satisfaction))]
    ELSE [TrendAnalysis(current_metrics, previous_metrics) EXCEPT
            !.satisfaction_trend = "baseline"]

\* The two weeks of load_weekly_analysis, as day numbers.
CurrentWeek == <<7, 13>>

PreviousWeek == <<0, 6>>

\* load_weekly_analysis from the two lists load_sessions_for_period returned.
load_weekly_analysis(current_sessions, prev_sessions) ==
    LET current_metrics ==
            aggregate_weekly_metrics(current_sessions, CurrentWeek[1], CurrentWeek[2])
        prev_metrics ==
            IF prev_sessions # <<>>
            THEN Some(aggregate_weekly_metrics(prev_sessions, PreviousWeek[1], PreviousWeek[2]))
            ELSE None
    IN  analyze_trends(current_metrics, prev_metrics)

(***************************************************************************)
(* The arguments the model calls the trend engine with.                    *)
(***************************************************************************)
\* A Counter of satisfaction labels: a label is a key when its count is not 0.
SatisfactionCounter(satisfied, neutral, unsatisfied, other) ==
    LET count == [k \in {"likely_satisfied", "neutral", "likely_unsatisfied", "mixed"} |->
                    CASE k = "likely_satisfied" -> satisfied
                      [] k = "neutral" -> neutral
                      [] k = "likely_unsatisfied" -> unsatisfied
                      [] k = "mixed" -> other]
    IN  [k \in { x \in DOMAIN count : count[x] > 0 } |-> count[k]]

SatisfactionCounters ==
    { SatisfactionCounter(s, n, u, o) :
        s \in 0..MaxSatisfied, n \in 0..MaxNeutral,
        u \in 0..MaxUnsatisfied, o \in 0..MaxOther }

FrictionPool ==
    { EmptyDict,
      Dict1("buggy_code", 2),
      Dict1("buggy_code", 4),
      Dict2("buggy_code", 1, "context_overflow", 1),
      Dict2("buggy_code", 1, "unclear_requirements", 3) }

SatisfactionPool ==
    { EmptyDict,
      Dict1("likely_satisfied", 3),
      Dict2("likely_satisfied", 1, "likely_unsatisfied", 2) }

\* WeeklyMetrics built field by field, as the tests build them.
MetricsPool ==
    { [WeeklyMetrics(w[1], w[2]) EXCEPT
          !.total_sessions = t, !.friction_counts = f, !.satisfaction = s] :
        w \in {CurrentWeek}, t \in 0..MaxTotal, f \in FrictionPool, s \in SatisfactionPool }

(***************************************************************************)
(* The trend engine called once: one action for each of its functions.     *)
(***************************************************************************)
CallPercentageChange ==
    /\ trend_pc = "idle"
    /\ \E current \in 0..MaxValue, previous \in 0..MaxValue :
        /\ trend_call' = <<"calculate_percentage_change", current, previous>>
        /\ trend_result' = Some(calculate_percentage_change(current, previous))
    /\ trend_pc' = "done"
    /\ UNCHANGED <<aggVars, recVars, splitVars, loadVars, laterVars>>

CallSatisfactionTrend ==
    /\ trend_pc = "idle"
    /\ \E current \in SatisfactionCounters,
          previous \in { Some(c) : c \in SatisfactionCounters } \cup {None} :
        /\ trend_call' = <<"calculate_satisfaction_trend", current, previous>>
        /\ trend_result' = Some(calculate_satisfaction_trend(current, previous))
    /\ trend_pc' = "done"
    /\ UNCHANGED <<aggVars, recVars, splitVars, loadVars, laterVars>>

CallAnalyzeTrends ==
    /\ trend_pc = "idle"
    /\ \E current \in MetricsPool,
          previous \in { Some(m) : m \in MetricsPool } \cup {None} :
        /\ trend_call' = <<"analyze_trends", current, previous>>
        /\ trend_result' = Some(analyze_trends(current, previous))
    /\ trend_pc' = "done"
    /\ UNCHANGED <<aggVars, recVars, splitVars, loadVars, laterVars>>

CallLoadWeeklyAnalysis ==
    /\ trend_pc = "idle"
    /\ \E current_sessions \in SeqsUpTo(SessionPool, MaxCurrentSessions),
          prev_sessions \in SeqsUpTo(SessionPool, MaxPreviousSessions) :
        /\ trend_call' = <<"load_weekly_analysis", current_sessions, prev_sessions>>
        /\ trend_result' = Some(load_weekly_analysis(current_sessions, prev_sessions))
    /\ trend_pc' = "done"
    /\ UNCHANGED <<aggVars, recVars, splitVars, loadVars, laterVars>>

NextTrend ==
    \/ CallPercentageChange
    \/ CallAnalyzeTrends
    \/ CallLoadWeeklyAnalysis

SpecTrend == Init /\ [][NextTrend]_vars

NextSat == CallSatisfactionTrend

SpecSat == Init /\ [][NextSat]_vars

(***************************************************************************)
(* str: the methods parse_recommendations uses, on TLA+ strings.           *)
(***************************************************************************)
CharAt(s, i) == SubSeq(s, i, i)

\* s.startswith(prefix)
StartsWith(s, prefix) ==
    Len(prefix) <= Len(s) /\ SubSeq(s, 1, Len(prefix)) = prefix

\* sub in s
Contains(s, sub) ==
    \E i \in 1..(Len(s) - Len(sub) + 1) : SubSeq(s, i, i + Len(sub) - 1) = sub

UpperCase == "ABCDEFGHIJKLMNOPQRSTUVWXYZ"

LowerCase == "abcdefghijklmnopqrstuvwxyz"

UpperChars == { CharAt(UpperCase, i) : i \in 1..Len(UpperCase) }

LowerTable ==
    [ c \in UpperChars |->
        CharAt(LowerCase, CHOOSE i \in 1..Len(UpperCase) : CharAt(UpperCase, i) = c) ]

LowerChar(c) == IF c \in UpperChars THEN LowerTable[c] ELSE c

\* s.lower(), halving the string.
RECURSIVE Lower(_)
Lower(s) ==
    IF Len(s) = 0 THEN s
    ELSE IF Len(s) = 1 THEN LowerChar(s)
    ELSE LET h == Len(s) \div 2
         IN  Lower(SubSeq(s, 1, h)) \o Lower(SubSeq(s, h + 1, Len(s)))

\* The characters str.strip() removes (of those that occur in a text).
Whitespace == { " ", "\t", "\n" }

\* The indices of the characters of s that are not in chars.
Kept(s, chars) == { i \in 1..Len(s) : CharAt(s, i) \notin chars }

First(S) == CHOOSE i \in S : \A j \in S : i <= j

Last(S) == CHOOSE i \in S : \A j \in S : i >= j

\* s.lstrip(chars)
LStripChars(s, chars) ==
    IF Kept(s, chars) = {} THEN "" ELSE SubSeq(s, First(Kept(s, chars)), Len(s))

\* s.strip(chars)
StripChars(s, chars) ==
    IF Kept(s, chars) = {} THEN ""
    ELSE SubSeq(s, First(Kept(s, chars)), Last(Kept(s, chars)))

\* s.strip()
Strip(s) == StripChars(s, Whitespace)

(***************************************************************************)
(* The response texts the model parses, as the list of their lines.        *)
(***************************************************************************)
LinePool ==
    { "## Recommendations",
      "Recommendations:",
      "1. Consider adding a test checklist",
      "**Update the docs**",
      "- Evidence: 3 sessions",
      "- Priority: high",
      "Some plain text",
      "## What's Working Well" }

\* Every text of 1 to MaxLines lines of the pool ("" splits into one empty
\* line, so that a text never has no line).
Texts == SeqsUpTo(LinePool, MaxLines) \ { <<>> }

(***************************************************************************)
(* Texts of the clean layout: a recommendations heading, numbered items    *)
(* "k. Consider ..." each followed by an "- Evidence: ..." line, and the   *)
(* heading of the next section.                                            *)
(***************************************************************************)
\* <<the text after "k. ", the evidence line>>
ItemPool ==
    { <<"Consider adding a test checklist", "- Evidence: 3 sessions">>,
      <<"Consider updating the docs", "- Evidence: seen twice">>,
      <<"Consider **bold checks**", "- Evidence: 3 sessions">>,
      <<"Consider adding tests", "- Evidence: builds are working well">> }

DigitOf(k) == CharAt("0123456789", k + 1)

RECURSIVE ItemLines(_, _)
ItemLines(items, k) ==
    IF k > Len(items) THEN <<>>
    ELSE << DigitOf(k) \o ". " \o items[k][1], items[k][2] >> \o ItemLines(items, k + 1)

CleanText(items) ==
    <<"## Recommendations">> \o ItemLines(items, 1) \o <<"## What's Working Well">>

CleanTexts == { CleanText(items) : items \in SeqsUpTo(ItemPool, MaxItems) \ { <<>> } }

(***************************************************************************)
(* Texts that open with the recommendations heading, so that every later   *)
(* line is read inside the section until a line ends it.                   *)
(***************************************************************************)
SectionLinePool ==
    { "1. Consider adding high priority checks",
      "**Update the docs**",
      "**Recommendation: add tests**",
      "## Recommendations that are working well",
      "- Evidence: 3 sessions",
      "- Suggested change: review each session",
      "- High impact",
      "- Highly reversible",
      "- Priority: low",
      "- Priority: medium",
      "- Reversibility: unclear",
      "- Reversibility: low",
      "Some plain text",
      "## What's Working Well" }

SectionTexts ==
    { <<"## Recommendations">> \o body : body \in SeqsUpTo(SectionLinePool, MaxBodyLines) }

(***************************************************************************)
(* The response texts the model splits into sections.                      *)
(***************************************************************************)
SplitLinePool ==
    { "## Executive Summary",
      "## Friction Analysis",
      "## What's Working Well",
      "## Recommendations",
      "**Recommendations**",
      "# Notes",
      "Tests pass quickly",
      "" }

SplitTexts == SeqsUpTo(SplitLinePool, MaxSplitLines) \ { <<>> }

(***************************************************************************)
(* line.lower() of every line of these texts, computed once per line as in *)
(* line 194 rather than in every test that reads lower_line.               *)
(***************************************************************************)
KnownLines ==
    LinePool \cup SectionLinePool \cup SplitLinePool
        \cup UNION { { text[i] : i \in 1..Len(text) } : text \in CleanTexts }

LowerLines == [ line \in KnownLines |-> Lower(line) ]

LowerLine(line) == LowerLines[line]

(***************************************************************************)
(* parse_recommendations: one action for each branch of the loop body.     *)
(***************************************************************************)
Recommendation(title) ==
    [ title            |-> title,
      priority         |-> "medium",
      evidence         |-> "",
      suggested_change |-> "",
      impact           |-> "",
      reversibility    |-> "high" ]

\* The line the loop is reading.
Line == lines[line_no]

Scanning == rec_pc = "scan" /\ line_no <= Len(lines)

\* The test of lines 197-199 with the startswith part left out.
MentionsRecommendations(line) == Contains(LowerLine(line), "recommendation")

\* Lines 197-199: the line starts the recommendations section.
IsRecommendationsHeading(line) ==
    /\ Contains(LowerLine(line), "recommendation")
    /\ StartsWith(line, "#") \/ StartsWith(line, "**")

\* Line 204.
IsSectionEnd(line) == Contains(LowerLine(line), "working well")

NumberedMarkers == { "1.", "2.", "3.", "4.", "5." }

\* Lines 216-219: the line starts a recommendation.
IsItemStart(line) ==
    LET stripped == Strip(line)
        lower_line == LowerLine(line)
    IN  /\ \/ \E m \in NumberedMarkers : StartsWith(stripped, m)
           \/ StartsWith(stripped, "**")
        /\ \/ Contains(lower_line, "consider")
           \/ Contains(lower_line, "add")
           \/ Contains(lower_line, "update")

Digits == { "0", "1", "2", "3", "4", "5", "6", "7", "8", "9" }

\* The whole line is taken for markers and stripped.
EmptyTitle(line) == ""

\* Lines 225-226.
TitleOf(line) ==
    Strip(StripChars(Strip(LStripChars(Strip(line), Digits \cup {"."})), {"*"}))

\* The line with its bullet kept.
KeepBullet(line) == Strip(line)

\* Lines 245 and 248: line.strip().lstrip("-*").strip()
Unbulleted(line) == Strip(LStripChars(Strip(line), {"-", "*"}))

\* The word "high" sets the priority even in a line about impact.
WithPriorityAnyHigh(rec, lower_line) ==
    IF Contains(lower_line, "priority") \/ Contains(lower_line, "high")
    THEN IF Contains(lower_line, "high") THEN [rec EXCEPT !.priority = "high"]
         ELSE IF Contains(lower_line, "low") THEN [rec EXCEPT !.priority = "low"]
         ELSE rec
    ELSE rec

\* Lines 238-242.
WithPriority(rec, lower_line) ==
    IF Contains(lower_line, "priority")
       \/ (Contains(lower_line, "high") /\ ~Contains(lower_line, "impact"))
    THEN IF Contains(lower_line, "high") THEN [rec EXCEPT !.priority = "high"]
         ELSE IF Contains(lower_line, "low") THEN [rec EXCEPT !.priority = "low"]
         ELSE rec
    ELSE rec

\* The first evidence line is kept: a later one does not overwrite it.
WithEvidenceFirst(rec, line, lower_line) ==
    IF (Contains(lower_line, "evidence") \/ Contains(lower_line, "session"))
       /\ rec.evidence = ""
    THEN [rec EXCEPT !.evidence = Unbulleted(line)]
    ELSE rec

\* Lines 244-245.
WithEvidence(rec, line, lower_line) ==
    IF Contains(lower_line, "evidence") \/ Contains(lower_line, "session")
    THEN [rec EXCEPT !.evidence = Unbulleted(line)]
    ELSE rec

\* Lines 247-248.
WithSuggestedChange(rec, line, lower_line) ==
    IF Contains(lower_line, "suggest") \/ Contains(lower_line, "change")
    THEN [rec EXCEPT !.suggested_change = Unbulleted(line)]
    ELSE rec

\* A line about reversibility that names no level leaves the field alone.
WithReversibilityKept(rec, lower_line) ==
    IF Contains(lower_line, "reversib")
    THEN IF Contains(lower_line, "high") THEN [rec EXCEPT !.reversibility = "high"]
         ELSE IF Contains(lower_line, "low") THEN [rec EXCEPT !.reversibility = "low"]
         ELSE rec
    ELSE rec

\* Lines 250-256.
WithReversibility(rec, lower_line) ==
    IF Contains(lower_line, "reversib")
    THEN IF Contains(lower_line, "high") THEN [rec EXCEPT !.reversibility = "high"]
         ELSE IF Contains(lower_line, "low") THEN [rec EXCEPT !.reversibility = "low"]
         ELSE [rec EXCEPT !.reversibility = "medium"]
    ELSE rec

\* Lines 237-256: the attributes a line gives the recommendation in progress.
Enriched(rec, line) ==
    LET lower_line == LowerLine(line)
    IN  WithReversibility(
            WithSuggestedChange(
                WithEvidence(WithPriority(rec, lower_line), line, lower_line),
                line, lower_line),
            lower_line)

\* Lines 186-191, for the text whose lines are text.
Begin(text) ==
    /\ lines' = text
    /\ line_no' = 1
    /\ in_recommendations' = FALSE
    /\ current_rec' = None
    /\ recommendations' = <<>>
    /\ rec_pc' = "scan"
    /\ UNCHANGED <<aggVars, trendVars, splitVars, loadVars, laterVars>>

\* Lines 197-201.
EnterSection ==
    /\ Scanning
    /\ IsRecommendationsHeading(Line)
    /\ in_recommendations' = TRUE
    /\ line_no' = line_no + 1
    /\ UNCHANGED <<rec_pc, lines, current_rec, recommendations, aggVars, trendVars, splitVars, loadVars, laterVars>>

\* The section ends and the recommendation in progress is appended but stays
\* in progress.
ExitSectionKeeping ==
    /\ Scanning
    /\ ~IsRecommendationsHeading(Line)
    /\ in_recommendations /\ IsSectionEnd(Line)
    /\ in_recommendations' = FALSE
    /\ recommendations' =
          IF current_rec # None THEN Append(recommendations, current_rec[1])
          ELSE recommendations
    /\ line_no' = line_no + 1
    /\ UNCHANGED <<rec_pc, lines, current_rec, aggVars, trendVars, splitVars, loadVars, laterVars>>

\* The section ends and the recommendation in progress is dropped.
ExitSectionDropping ==
    /\ Scanning
    /\ ~IsRecommendationsHeading(Line)
    /\ in_recommendations /\ IsSectionEnd(Line)
    /\ in_recommendations' = FALSE
    /\ current_rec' = None
    /\ line_no' = line_no + 1
    /\ UNCHANGED <<rec_pc, lines, recommendations, aggVars, trendVars, splitVars, loadVars, laterVars>>

\* Lines 204-209.
ExitSection ==
    /\ Scanning
    /\ ~IsRecommendationsHeading(Line)
    /\ in_recommendations /\ IsSectionEnd(Line)
    /\ in_recommendations' = FALSE
    /\ IF current_rec # None
       THEN /\ recommendations' = Append(recommendations, current_rec[1])
            /\ current_rec' = None
       ELSE UNCHANGED <<recommendations, current_rec>>
    /\ line_no' = line_no + 1
    /\ UNCHANGED <<rec_pc, lines, aggVars, trendVars, splitVars, loadVars, laterVars>>

\* Lines 211-212.
SkipOutside ==
    /\ Scanning
    /\ ~IsRecommendationsHeading(Line)
    /\ ~in_recommendations
    /\ line_no' = line_no + 1
    /\ UNCHANGED <<rec_pc, lines, in_recommendations, current_rec, recommendations,
                   aggVars, trendVars, splitVars, loadVars, laterVars>>

\* The starting line is also read as an attribute line of the new record.
StartItemEnriching ==
    /\ Scanning
    /\ ~IsRecommendationsHeading(Line)
    /\ in_recommendations /\ ~IsSectionEnd(Line)
    /\ IsItemStart(Line)
    /\ recommendations' =
          IF current_rec # None /\ current_rec[1].title # ""
          THEN Append(recommendations, current_rec[1])
          ELSE recommendations
    /\ current_rec' = Some(Enriched(Recommendation(TitleOf(Line)), Line))
    /\ line_no' = line_no + 1
    /\ UNCHANGED <<rec_pc, lines, in_recommendations, aggVars, trendVars, splitVars, loadVars, laterVars>>

\* Lines 216-234.
StartItem ==
    /\ Scanning
    /\ ~IsRecommendationsHeading(Line)
    /\ in_recommendations /\ ~IsSectionEnd(Line)
    /\ IsItemStart(Line)
    /\ recommendations' =
          IF current_rec # None /\ current_rec[1].title # ""
          THEN Append(recommendations, current_rec[1])
          ELSE recommendations
    /\ current_rec' = Some(Recommendation(TitleOf(Line)))
    /\ line_no' = line_no + 1
    /\ UNCHANGED <<rec_pc, lines, in_recommendations, aggVars, trendVars, splitVars, loadVars, laterVars>>

\* Lines 236-256.
EnrichItem ==
    /\ Scanning
    /\ ~IsRecommendationsHeading(Line)
    /\ in_recommendations /\ ~IsSectionEnd(Line)
    /\ ~IsItemStart(Line)
    /\ current_rec # None
    /\ current_rec' = Some(Enriched(current_rec[1], Line))
    /\ line_no' = line_no + 1
    /\ UNCHANGED <<rec_pc, lines, in_recommendations, recommendations, aggVars, trendVars, splitVars, loadVars, laterVars>>

\* A line inside the section that starts nothing while no recommendation is in
\* progress: no branch of lines 216-256 is taken.
PassLine ==
    /\ Scanning
    /\ ~IsRecommendationsHeading(Line)
    /\ in_recommendations /\ ~IsSectionEnd(Line)
    /\ ~IsItemStart(Line)
    /\ current_rec = None
    /\ line_no' = line_no + 1
    /\ UNCHANGED <<rec_pc, lines, in_recommendations, current_rec, recommendations,
                   aggVars, trendVars, splitVars, loadVars, laterVars>>

\* The end of the text is reached and the recommendation in progress is lost.
ReturnDropping ==
    /\ rec_pc = "scan" /\ line_no > Len(lines)
    /\ rec_pc' = "done"
    /\ UNCHANGED <<lines, line_no, in_recommendations, current_rec, recommendations,
                   aggVars, trendVars, splitVars, loadVars, laterVars>>

\* Lines 258-262.
Return ==
    /\ rec_pc = "scan" /\ line_no > Len(lines)
    /\ recommendations' =
          IF current_rec # None /\ current_rec[1].title # ""
          THEN Append(recommendations, current_rec[1])
          ELSE recommendations
    /\ rec_pc' = "done"
    /\ UNCHANGED <<lines, line_no, in_recommendations, current_rec, aggVars, trendVars, splitVars, loadVars, laterVars>>

BeginAny == rec_pc = "idle" /\ \E text \in Texts : Begin(text)

NextRec ==
    \/ BeginAny
    \/ EnterSection
    \/ ExitSection
    \/ SkipOutside
    \/ StartItem
    \/ EnrichItem
    \/ PassLine
    \/ Return

SpecRec == Init /\ [][NextRec]_vars

BeginClean == rec_pc = "idle" /\ \E text \in CleanTexts : Begin(text)

NextClean ==
    \/ BeginClean
    \/ EnterSection
    \/ ExitSection
    \/ SkipOutside
    \/ StartItem
    \/ EnrichItem
    \/ Return

SpecClean == Init /\ [][NextClean]_vars

BeginSection == rec_pc = "idle" /\ \E text \in SectionTexts : Begin(text)

NextSection ==
    \/ BeginSection
    \/ EnterSection
    \/ ExitSection
    \/ SkipOutside
    \/ StartItem
    \/ EnrichItem
    \/ PassLine
    \/ Return

SpecSection == Init /\ [][NextSection]_vars

(***************************************************************************)
(* _parse_response_sections: one action for each branch of the loop body.  *)
(***************************************************************************)
\* "\n".join(content)
RECURSIVE Join(_)
Join(content) ==
    IF content = <<>> THEN ""
    ELSE IF Len(content) = 1 THEN content[1]
    ELSE content[1] \o "\n" \o Join(Tail(content))

\* The line the loop is reading.
SplitLine == split_lines[split_no]

SplitScanning == split_pc = "scan" /\ split_no <= Len(split_lines)

\* Line 358.
IsExecutiveSummary(line) ==
    Contains(LowerLine(line), "executive") /\ Contains(LowerLine(line), "summary")

\* Line 363.
IsFrictionAnalysis(line) ==
    Contains(LowerLine(line), "friction") /\ Contains(LowerLine(line), "analysis")

\* Line 368.
IsWorkingWell(line) == Contains(LowerLine(line), "working well")

\* Line 373.
IsRecommendationsHash(line) ==
    Contains(LowerLine(line), "recommendation") /\ StartsWith(line, "#")

\* Lines 359-360, 364-365, 369-370, 374-375 and 384-385.
Saved(secs, section, content) ==
    IF section # None /\ content # <<>>
    THEN [secs EXCEPT ![section[1]] = Strip(Join(content))]
    ELSE secs

\* Lines 345-354, for the text whose lines are text.
SplitBegin(text) ==
    /\ split_lines' = text
    /\ split_no' = 1
    /\ sections' = [ name \in SectionNames |-> "" ]
    /\ current_section' = None
    /\ current_content' = <<>>
    /\ split_pc' = "scan"
    /\ UNCHANGED <<aggVars, trendVars, recVars, loadVars, laterVars>>

\* A heading line that keeps the content collected so far for the next section.
StartSectionKeeping(section) ==
    /\ sections' = Saved(sections, current_section, current_content)
    /\ current_section' = section
    /\ UNCHANGED current_content
    /\ split_no' = split_no + 1
    /\ UNCHANGED <<split_pc, split_lines, aggVars, trendVars, recVars, loadVars, laterVars>>

\* A heading line: the content collected so far is saved and section, or no
\* section, starts.
StartSection(section) ==
    /\ sections' = Saved(sections, current_section, current_content)
    /\ current_section' = section
    /\ current_content' = <<>>
    /\ split_no' = split_no + 1
    /\ UNCHANGED <<split_pc, split_lines, aggVars, trendVars, recVars, loadVars, laterVars>>

\* Lines 358-362.
ExecutiveSummaryHeading ==
    /\ SplitScanning
    /\ IsExecutiveSummary(SplitLine)
    /\ StartSection(Some("executive_summary"))

\* Lines 363-367.
FrictionAnalysisHeading ==
    /\ SplitScanning
    /\ ~IsExecutiveSummary(SplitLine)
    /\ IsFrictionAnalysis(SplitLine)
    /\ StartSection(Some("friction_analysis"))

\* Lines 368-372.
WorkingWellHeading ==
    /\ SplitScanning
    /\ ~IsExecutiveSummary(SplitLine) /\ ~IsFrictionAnalysis(SplitLine)
    /\ IsWorkingWell(SplitLine)
    /\ StartSection(Some("whats_working"))

\* Lines 373-377.
RecommendationsHeading ==
    /\ SplitScanning
    /\ ~IsExecutiveSummary(SplitLine) /\ ~IsFrictionAnalysis(SplitLine)
    /\ ~IsWorkingWell(SplitLine)
    /\ IsRecommendationsHash(SplitLine)
    /\ StartSection(None)

NoHeadingBranch ==
    /\ SplitScanning
    /\ ~IsExecutiveSummary(SplitLine) /\ ~IsFrictionAnalysis(SplitLine)
    /\ ~IsWorkingWell(SplitLine) /\ ~IsRecommendationsHash(SplitLine)

\* Lines 378-381, the line not starting with "#".
CollectLine ==
    /\ NoHeadingBranch
    /\ current_section # None
    /\ ~StartsWith(SplitLine, "#")
    /\ current_content' = Append(current_content, SplitLine)
    /\ split_no' = split_no + 1
    /\ UNCHANGED <<split_pc, split_lines, sections, current_section,
                   aggVars, trendVars, recVars, loadVars, laterVars>>

\* Lines 378-380, the line starting with "#".
SkipHeaderLine ==
    /\ NoHeadingBranch
    /\ current_section # None
    /\ StartsWith(SplitLine, "#")
    /\ split_no' = split_no + 1
    /\ UNCHANGED <<split_pc, split_lines, sections, current_section, current_content,
                   aggVars, trendVars, recVars, loadVars, laterVars>>

\* No branch of lines 358-381 is taken: no section is being collected.
DropLine ==
    /\ NoHeadingBranch
    /\ current_section = None
    /\ split_no' = split_no + 1
    /\ UNCHANGED <<split_pc, split_lines, sections, current_section, current_content,
                   aggVars, trendVars, recVars, loadVars, laterVars>>

\* Lines 383-387.
SplitReturn ==
    /\ split_pc = "scan" /\ split_no > Len(split_lines)
    /\ sections' = Saved(sections, current_section, current_content)
    /\ split_pc' = "done"
    /\ UNCHANGED <<split_lines, split_no, current_section, current_content,
                   aggVars, trendVars, recVars, loadVars, laterVars>>

SplitBeginAny == split_pc = "idle" /\ \E text \in SplitTexts : SplitBegin(text)

NextSplit ==
    \/ SplitBeginAny
    \/ ExecutiveSummaryHeading
    \/ FrictionAnalysisHeading
    \/ WorkingWellHeading
    \/ RecommendationsHeading
    \/ CollectLine
    \/ SkipHeaderLine
    \/ DropLine
    \/ SplitReturn

SpecSplit == Init /\ [][NextSplit]_vars

(***************************************************************************)
(* load_sessions_for_period and parse_session_file.                        *)
(***************************************************************************)
\* What a session file holds: a JSON object with fields of the right types
\* (here the empty object, every field at its default), a file that cannot be
\* opened or read, text that is not JSON, JSON that is not an object, or an
\* object with a field of the wrong type.
FileData == { "valid", "unreadable", "invalid_json", "not_object", "wrong_type" }

\* start_date and end_date.
PeriodStart == 1

PeriodEnd == 2

\* The n-th file of the directory.
SessionFile(n, mtime, data) ==
    [ stem |-> "session-" \o DigitOf(n), mtime |-> mtime, data |-> data ]

RECURSIVE Directories(_)
Directories(n) ==
    IF n = 0 THEN { <<>> }
    ELSE LET shorter == Directories(n - 1)
         IN  shorter \cup
             { Append(d, SessionFile(n, mtime, data)) :
                 d \in { r \in shorter : Len(r) = n - 1 },
                 mtime \in 0..MaxMtime, data \in FileData }

\* parse_session_file: the session, None after a caught exception, or an
\* exception that leaves the function. open raises OSError and json.load
\* raises JSONDecodeError, which line 108 catches; data.get on a value that is
\* not a dict raises AttributeError and SessionInsight(...) on a field of the
\* wrong type raises ValidationError, which line 108 does not catch.
parse_session_file(file) ==
    IF file.data \in { "unreadable", "invalid_json" }
    THEN [ raised |-> FALSE, value |-> None ]
    ELSE IF file.data \in { "not_object", "wrong_type" }
    THEN [ raised |-> TRUE, value |-> None ]
    ELSE [ raised |-> FALSE, value |-> Some(SessionInsight(file.stem)) ]

\* The file the loop is reading.
File == files[file_no]

LoadScanning == load_pc = "scan" /\ file_no <= Len(files)

\* Line 157.
InPeriod(file) == PeriodStart <= file.mtime /\ file.mtime <= PeriodEnd

\* Lines 149-154, the directory existing and holding the files of directory.
LoadBegin ==
    /\ load_pc = "idle"
    /\ \E directory \in Directories(MaxFiles) :
          /\ files' = directory
          /\ file_no' = 1
          /\ load_sessions' = <<>>
          /\ load_pc' = "scan"
    /\ UNCHANGED <<aggVars, trendVars, recVars, splitVars, laterVars>>

\* Lines 151-152: the directory does not exist.
LoadMissingDirectory ==
    /\ load_pc = "idle"
    /\ load_sessions' = <<>>
    /\ load_pc' = "done"
    /\ UNCHANGED <<files, file_no, aggVars, trendVars, recVars, splitVars, laterVars>>

\* Lines 156-157: the file was modified outside the period.
SkipFile ==
    /\ LoadScanning
    /\ ~InPeriod(File)
    /\ file_no' = file_no + 1
    /\ UNCHANGED <<load_pc, files, load_sessions, aggVars, trendVars, recVars, splitVars, laterVars>>

\* Lines 158-160: the file is parsed.
LoadFile ==
    /\ LoadScanning
    /\ InPeriod(File)
    /\ ~parse_session_file(File).raised
    /\ parse_session_file(File).value # None
    /\ load_sessions' = Append(load_sessions, parse_session_file(File).value[1])
    /\ file_no' = file_no + 1
    /\ UNCHANGED <<load_pc, files, aggVars, trendVars, recVars, splitVars, laterVars>>

\* Lines 158-159: parse_session_file returned None.
PassFile ==
    /\ LoadScanning
    /\ InPeriod(File)
    /\ ~parse_session_file(File).raised
    /\ parse_session_file(File).value = None
    /\ file_no' = file_no + 1
    /\ UNCHANGED <<load_pc, files, load_sessions, aggVars, trendVars, recVars, splitVars, laterVars>>

\* Line 158: the exception parse_session_file did not catch leaves
\* load_sessions_for_period, which has no handler.
LoadRaise ==
    /\ LoadScanning
    /\ InPeriod(File)
    /\ parse_session_file(File).raised
    /\ load_pc' = "raised"
    /\ UNCHANGED <<files, file_no, load_sessions, aggVars, trendVars, recVars, splitVars, laterVars>>

\* Line 162.
LoadReturn ==
    /\ load_pc = "scan" /\ file_no > Len(files)
    /\ load_pc' = "done"
    /\ UNCHANGED <<files, file_no, load_sessions, aggVars, trendVars, recVars, splitVars, laterVars>>

NextLoad ==
    \/ LoadBegin
    \/ LoadMissingDirectory
    \/ SkipFile
    \/ LoadFile
    \/ PassFile
    \/ LoadRaise
    \/ LoadReturn

SpecLoad == Init /\ [][NextLoad]_vars

(***************************************************************************)
(* build_outcome_digest (outcome_reader.py).                               *)
(***************************************************************************)
\* An OutcomeRecord, by the four fields the digest reads: outcome.value, a str;
\* overall_score, None or a float, here the float of a whole number, so that
\* sums of scores are exact; tech_stack, a list of str; build_outcome, a str
\* or None.
OutcomeRecord(outcome, overall_score, tech_stack, build_outcome) ==
    [ outcome |-> outcome, overall_score |-> overall_score,
      tech_stack |-> tech_stack, build_outcome |-> build_outcome ]

RecordPool ==
    { OutcomeRecord("published", Some(90), <<"python", "react">>, Some("success")),
      OutcomeRecord("rejected", None, <<>>, None),
      OutcomeRecord("build_failed", Some(45),
                    <<"python", "go", "rust", "java", "ruby", "react">>, Some("failed")),
      OutcomeRecord("published", None, <<"go">>, Some("success")),
      OutcomeRecord("rejected", Some(0), <<"rust", "java">>, Some("")),
      OutcomeRecord("deferred", Some(100), <<"ruby", "kotlin">>, Some("failed")) }

RecordLists == SeqsUpTo(RecordPool, MaxRecords)

\* str(n) of an int n >= 0.
RECURSIVE Str(_)
Str(n) == IF n < 10 THEN DigitOf(n) ELSE Str(n \div 10) \o DigitOf(n % 10)

\* f"{x:.0f}" (decimals = 0) and f"{x:.1f}" (decimals = 1) of a float x: the
\* decimal nearest to the exact value of x, ties to the even digit.
Fixed(x, decimals) ==
    IF x = FZero THEN (IF decimals = 0 THEN "0" ELSE "0.0")
    ELSE LET scaled == MulSmall(x.man, 10^decimals) \o Zeros(MaxOf(x.exp, 0))
             k == Len(scaled) + MinOf(x.exp, 0)
             whole == IF k <= 0 THEN 0 ELSE ChunkVal(scaled, 1, k)
             frac == IF k >= 0 THEN SubSeq(scaled, k + 1, Len(scaled))
                     ELSE Zeros(-k) \o scaled
             half == frac # <<>> /\ frac[1] = 1
             more == \E i \in 2..Len(frac) : frac[i] = 1
             up == half /\ (more \/ whole % 2 = 1)
             n == whole + (IF up THEN 1 ELSE 0)
         IN  (IF x.sign = 1 THEN "-" ELSE "")
             \o Str(n \div 10^decimals)
             \o (IF decimals = 0 THEN "" ELSE "." \o Str(n % 10^decimals))

\* The keys of a dict filled in the order of labels, in insertion order.
RECURSIVE Keys(_)
Keys(labels) ==
    IF labels = <<>> THEN <<>>
    ELSE LET rest == Keys(SubSeq(labels, 1, Len(labels) - 1))
             last == labels[Len(labels)]
         IN  IF \E i \in DOMAIN rest : rest[i] = last THEN rest ELSE Append(rest, last)

\* The dict of counts: d[label] = d.get(label, 0) + 1 for each label in order.
Tally(labels) ==
    [ k \in { labels[i] : i \in DOMAIN labels } |->
        Cardinality({ i \in DOMAIN labels : labels[i] = k }) ]

\* sorted(d.items(), key=lambda x: -x[1]) as the list of keys: the sort is
\* stable, so that keys of equal count keep their insertion order.
RECURSIVE SortedByCount(_, _)
SortedByCount(keys, counts) ==
    IF keys = <<>> THEN <<>>
    ELSE LET rest == SortedByCount(SubSeq(keys, 1, Len(keys) - 1), counts)
             last == keys[Len(keys)]
             before == Cardinality({ i \in DOMAIN rest : counts[rest[i]] >= counts[last] })
         IN  SubSeq(rest, 1, before) \o <<last>> \o SubSeq(rest, before + 1, Len(rest))

\* The items of a dict in insertion order, unsorted.
UnsortedItems(d, labels) == Keys(labels)

\* sorted(d.items(), key=lambda x: -x[1]) of a dict d filled in the order of labels.
SortedItems(d, labels) == SortedByCount(Keys(labels), d)

\* The values r.outcome.value of the records, in order.
OutcomeLabels(records) == [ i \in DOMAIN records |-> records[i].outcome ]

\* Lines 68-69 reading a missing score as 0.
ScoresOrZero(records) ==
    [ i \in DOMAIN records |->
        IF records[i].overall_score # None THEN records[i].overall_score[1] ELSE 0 ]

\* Lines 68-69: the scores that are not None, in order.
Scores(records) ==
    LET HasScore(r) == r.overall_score # None
        scored == SelectSeq(records, HasScore)
    IN  [ i \in DOMAIN scored |-> scored[i].overall_score[1] ]

\* Lines 70-71: every tag of every record, in order.
RECURSIVE TechLabels(_)
TechLabels(records) ==
    IF records = <<>> THEN <<>>
    ELSE TechLabels(SubSeq(records, 1, Len(records) - 1))
         \o records[Len(records)].tech_stack

\* Lines 72-73: the build outcomes that are neither None nor "", in order.
RECURSIVE BuildLabels(_)
BuildLabels(records) ==
    IF records = <<>> THEN <<>>
    ELSE LET rest == BuildLabels(SubSeq(records, 1, Len(records) - 1))
             r == records[Len(records)]
         IN  IF r.build_outcome # None /\ r.build_outcome[1] # ""
             THEN Append(rest, r.build_outcome[1]) ELSE rest

RECURSIVE SumOf(_)
SumOf(numbers) ==
    IF numbers = <<>> THEN 0 ELSE numbers[1] + SumOf(Tail(numbers))

MinScore(scores) == CHOOSE x \in { scores[i] : i \in DOMAIN scores } :
                        \A i \in DOMAIN scores : x <= scores[i]

MaxScore(scores) == CHOOSE x \in { scores[i] : i \in DOMAIN scores } :
                        \A i \in DOMAIN scores : x >= scores[i]

\* Lines 79-82.
OutcomeLines(outcomes, labels, total) ==
    LET items == SortedItems(outcomes, labels)
    IN  [ i \in DOMAIN items |->
            "  - " \o items[i] \o ": " \o Str(outcomes[items[i]]) \o " ("
            \o Fixed(FMulInt(IntDiv(outcomes[items[i]], total), 100), 0) \o "%)" ]

\* Lines 84-86.
FailureLine(outcomes, total) ==
    LET failures == CounterGet(outcomes, "rejected") + CounterGet(outcomes, "build_failed")
    IN  "\n**Failure Rate**: " \o Fixed(FMulInt(IntDiv(failures, total), 100), 0)
        \o "% (" \o Str(failures) \o "/" \o Str(total) \o ")"

\* Lines 89-95.
ScoreLines(scores) ==
    IF scores = <<>> THEN <<>>
    ELSE << "\n**Score Distribution**:",
            "  - Average: " \o Fixed(IntDiv(SumOf(scores), Len(scores)), 1),
            "  - Range: " \o Fixed(FromInt(MinScore(scores)), 0) \o " - "
                \o Fixed(FromInt(MaxScore(scores)), 0) >>

\* The length of the slice [:5] of line 100.
TopTags == 5

\* Lines 98-101.
TechLines(tech_stacks, labels) ==
    IF labels = <<>> THEN <<>>
    ELSE LET items == SortedItems(tech_stacks, labels)
             top == SubSeq(items, 1, MinOf(TopTags, Len(items)))
         IN  << "\n**Common Tech Stacks**:" >>
             \o [ i \in DOMAIN top |->
                    "  - " \o top[i] \o ": " \o Str(tech_stacks[top[i]]) ]

\* Lines 104-107.
BuildLines(build_outcomes, labels) ==
    IF labels = <<>> THEN <<>>
    ELSE LET items == SortedItems(build_outcomes, labels)
         IN  << "\n**Build Outcomes**:" >>
             \o [ i \in DOMAIN items |->
                    "  - " \o items[i] \o ": " \o Str(build_outcomes[items[i]]) ]

\* Lines 56-109.
build_outcome_digest(records) ==
    IF records = <<>> THEN "No outcome records available yet."
    ELSE LET total == Len(records)
             outcomes == Tally(OutcomeLabels(records))
             scores == Scores(records)
             tech_stacks == Tally(TechLabels(records))
             build_outcomes == Tally(BuildLabels(records))
         IN  Join(<< "**Total Ideas Completed**: " \o Str(total),
                     "",
                     "**Outcome Distribution**:" >>
                  \o OutcomeLines(outcomes, OutcomeLabels(records), total)
                  \o << FailureLine(outcomes, total) >>
                  \o ScoreLines(scores)
                  \o TechLines(tech_stacks, TechLabels(records))
                  \o BuildLines(build_outcomes, BuildLabels(records)))

BuildDigest ==
    /\ digest_pc = "idle"
    /\ \E records \in RecordLists :
        /\ digest_records' = records
        /\ digest' = Some(build_outcome_digest(records))
    /\ digest_pc' = "done"
    /\ UNCHANGED <<earlierVars, mainVars, reportVars, weekVars>>

SpecDigest == Init /\ [][BuildDigest]_vars

(***************************************************************************)
(* write_weekly_report and write_recommendations_sidecar                   *)
(* (report_writer.py).  The directory can be written; the external store   *)
(* may fail.                                                               *)
(***************************************************************************)
\* The recommendations handed to the report writer: the two of the tests'
\* fixture and one with empty texts, each a Recommendation of six fields.
RecommendationPool ==
    { [ Recommendation("Add pre-test checklist") EXCEPT
          !.priority = "high",
          !.evidence = "3 sessions with buggy code friction",
          !.suggested_change = "Add testing guidelines to CLAUDE.md",
          !.impact = "Reduce test failures" ],
      [ Recommendation("Document common patterns") EXCEPT
          !.evidence = "Recurring clarification requests",
          !.suggested_change = "Add patterns section",
          !.impact = "Reduce cognitive load" ],
      [ Recommendation("Update the docs") EXCEPT
          !.priority = "low",
          !.reversibility = "medium" ] }

RecommendationLists == SeqsUpTo(RecommendationPool, MaxRecommendations)

\* AnalysisResult(...)
AnalysisResult(executive_summary, friction_analysis, recs, whats_working, raw_response) ==
    [ executive_summary |-> executive_summary,
      friction_analysis |-> friction_analysis,
      recommendations   |-> recs,
      whats_working     |-> whats_working,
      raw_response      |-> raw_response ]

\* The results handed to the report writer: the tests' fixture with any list of
\* recommendations, and a result whose texts are empty.
ResultPool ==
    { AnalysisResult("This week showed strong productivity with some friction.",
                     "Buggy code was the main friction source.",
                     recs, "Iterative refinement sessions performed well.", "") :
        recs \in RecommendationLists }
    \cup { AnalysisResult("", "", <<>>, "", "") }

\* The trend analyses handed to the report writer: of a week without sessions,
\* and of a week of one session after a week of one session.  In them no two
\* keys of a Counter have the same count.
TrendPool ==
    { load_weekly_analysis(weeks[1], weeks[2]) :
        weeks \in
          { << <<>>, <<>> >>,
            << << [SessionInsight("session-6") EXCEPT
                     !.outcome = "not_achieved",
                     !.friction_counts = Dict2("buggy_code", 2, "context_overflow", 1),
                     !.friction_detail = "Test failure"] >>,
               << [SessionInsight("session-2") EXCEPT
                     !.friction_counts = Dict1("context_overflow", 2)] >> >> } }

\* datetime.now().strftime("%Y-%m-%d") at the calls.
Dates == { "2026-02-08", "2026-02-09" }

\* d.strftime('%Y-%m-%d') of the day numbered day, day 0 being 2026-02-01.
DateStr(day) ==
    "2026-02-" \o (IF day + 1 < 10 THEN "0" ELSE "") \o Str(day + 1)

\* x or default, of a str x.
OrElse(x, default) == IF x # "" THEN x ELSE default

\* Lines 43-53.
format_trend(value) ==
    (IF FCmp(value, FZero) >= 0 THEN "+" ELSE "") \o Fixed(value, 0)
    \o "%"

\* counter.most_common() as the list of keys, by decreasing count.
most_common(counter) ==
    CHOOSE keys \in [ 1..Cardinality(DOMAIN counter) -> DOMAIN counter ] :
        /\ \A i, j \in DOMAIN keys : i < j =>
            keys[i] # keys[j] /\ counter[keys[i]] >= counter[keys[j]]

\* s.title() of a word s.
TitleCased(s) ==
    IF s = "" THEN s
    ELSE LET first == CharAt(s, 1)
             at == { i \in 1..Len(LowerCase) : CharAt(LowerCase, i) = first }
         IN  (IF at = {} THEN first ELSE CharAt(UpperCase, CHOOSE i \in at : TRUE))
             \o Lower(SubSeq(s, 2, Len(s)))

\* Lines 250-266.
format_recommendation(index, rec) ==
    << Str(index) \o ". **" \o rec.title \o "**" >>
    \o (IF rec.evidence # "" THEN << "   - **Evidence**: " \o rec.evidence >> ELSE <<>>)
    \o (IF rec.suggested_change # ""
        THEN << "   - **Suggested Change**: " \o rec.suggested_change >> ELSE <<>>)
    \o (IF rec.impact # "" THEN << "   - **Impact**: " \o rec.impact >> ELSE <<>>)
    \o << "   - **Reversibility**: " \o TitleCased(rec.reversibility), "" >>

RECURSIVE Formatted(_, _)
\* lines.extend(_format_recommendation(i, rec)) for i, rec in enumerate(group, 1),
\* from the n-th of the group on.
Formatted(group, n) ==
    IF n > Len(group) THEN <<>>
    ELSE format_recommendation(n, group[n]) \o Formatted(group, n + 1)

\* Lines 185-187: [r for r in recs if r.priority == priority]
WithPriorityOf(recs, priority) ==
    LET Has(r) == r.priority = priority IN SelectSeq(recs, Has)

\* The groups of lines 189-205, in the order the levels are named.
GroupsInOrder(recs, levels) ==
    LET Group(level) ==
            IF WithPriorityOf(recs, level[1]) = <<>> THEN <<>>
            ELSE << "### " \o level[2] \o " Priority", "" >>
                 \o Formatted(WithPriorityOf(recs, level[1]), 1)
    IN  Group(levels[1]) \o Group(levels[2]) \o Group(levels[3])

\* Lines 183-208.
RecommendationLines(recs) ==
    IF recs # <<>>
    THEN GroupsInOrder(recs, << <<"high", "High">>, <<"medium", "Medium">>,
                                <<"low", "Low">> >>)
    ELSE << "_No specific recommendations generated._", "" >>

\* Lines 98-172.
MetricsLines(trend_analysis, result) ==
    LET current == trend_analysis.current
        outcomes == most_common(current.outcomes)
        frictions == most_common(current.friction_counts)
    IN  << "| Sessions | " \o Str(current.total_sessions) \o " | "
              \o (IF trend_analysis.previous # None
                  THEN format_trend(trend_analysis.session_count_change)
                  ELSE "baseline") \o " |",
           "| Friction Events | " \o Str(SumValues(current.friction_counts)) \o " | "
              \o (IF trend_analysis.previous # None
                  THEN format_trend(trend_analysis.friction_change)
                  ELSE "baseline") \o " |",
           "| Satisfaction (likely_satisfied) | "
              \o Str(CounterGet(current.satisfaction, "likely_satisfied")) \o " | "
              \o trend_analysis.satisfaction_trend \o " |",
           "", "### Outcomes Breakdown", "" >>
        \o (IF DOMAIN current.outcomes # {}
            THEN [ i \in DOMAIN outcomes |->
                    "- **" \o outcomes[i] \o "**: " \o Str(current.outcomes[outcomes[i]])
                    \o " ("
                    \o (IF current.total_sessions > 0
                        THEN Fixed(FMulInt(IntDiv(current.outcomes[outcomes[i]],
                                                  current.total_sessions), 100), 0)
                        ELSE "0")
                    \o "%)" ]
            ELSE << "_No outcome data available._" >>)
        \o << "", "### Friction Breakdown", "" >>
        \o (IF DOMAIN current.friction_counts # {}
            THEN [ i \in DOMAIN frictions |->
                    "- **" \o frictions[i] \o "**: "
                    \o Str(current.friction_counts[frictions[i]]) ]
            ELSE << "_No friction recorded this week._" >>)
        \o << "", "---", "", "## Friction Analysis", "",
              OrElse(result.friction_analysis, "_No friction analysis generated._"), "" >>
        \o (IF current.friction_details # <<>>
            THEN << "### Friction Details", "" >>
                 \o [ i \in DOMAIN current.friction_details |->
                        "- " \o current.friction_details[i] ]
                 \o << "" >>
            ELSE <<>>)

\* Lines 78-223.
ReportLines(trend_analysis, result, today) ==
    << "# Sky-Lynx Weekly Report", "",
       "**Generated**: " \o today,
       "**Period**: " \o DateStr(trend_analysis.current.period_start) \o " to "
          \o DateStr(trend_analysis.current.period_end),
       "", "---", "", "## Executive Summary", "",
       OrElse(result.executive_summary, "_No summary generated._"),
       "", "---", "", "## Key Metrics", "",
       "| Metric | This Week | Trend |",
       "|--------|-----------|-------|" >>
    \o MetricsLines(trend_analysis, result)
    \o << "---", "", "## Recommendations", "" >>
    \o RecommendationLines(result.recommendations)
    \o << "---", "", "## What's Working Well", "",
          OrElse(result.whats_working, "_No positive patterns identified._"),
          "", "---", "",
          "*This report was generated by [Sky-Lynx](https://github.com/m2ai-portfolio/sky-lynx), "
          \o "a continuous improvement agent for Claude Code.*" >>

\* path.write_text(text): the directory after the file name is written.
Written(directory, name, text) ==
    [ n \in DOMAIN directory \cup {name} |-> IF n = name THEN text ELSE directory[n] ]

\* The value a call leaves: the exception it raised or None, what it returned
\* or None, and the directory and the store after it.
Outcome(exception, value, directory, stored) ==
    [ raised |-> exception, value |-> value, disk |-> directory, store |-> stored ]

\* The attributes of a Recommendation that lines 288-302 read.
AttributesRead ==
    { "recommendation_type", "target_persona", "target_system", "title", "evidence",
      "suggested_change", "priority", "impact", "reversibility" }

\* Lines 283-316: reading an attribute that is no field of the Recommendation
\* raises AttributeError; else the ImprovementRecommendation, without its random
\* recommendation_id.
to_contract_recommendation(rec, session_id) ==
    IF ~(AttributesRead \subseteq DOMAIN rec)
    THEN [ raised |-> Some("AttributeError"), value |-> None ]
    ELSE [ raised |-> None,
           value |-> Some([ session_id          |-> session_id,
                            recommendation_type |-> rec.recommendation_type,
                            target_system       |-> rec.target_system,
                            target_persona      |-> rec.target_persona,
                            title               |-> rec.title,
                            description         |-> rec.evidence,
                            suggested_change    |-> rec.suggested_change,
                            priority            |-> rec.priority,
                            impact              |-> rec.impact,
                            reversibility       |-> rec.reversibility ]) ]

\* Lines 336-369.  With store_ok FALSE the store raises when it is opened, and
\* line 366 catches it.
write_recommendations_sidecar(recs, date_str, directory, stored, store_ok) ==
    IF recs = <<>> THEN Outcome(None, None, directory, stored)
    ELSE LET session_id == "sky-lynx-" \o date_str
             converted == [ i \in DOMAIN recs |->
                              to_contract_recommendation(recs[i], session_id) ]
             contract_recs == [ i \in DOMAIN recs |-> converted[i].value[1] ]
             sidecar_path == date_str \o "-sky-lynx-recommendations.json"
             existing_sessions == { stored[i].session_id : i \in DOMAIN stored }
         IN  IF \E i \in DOMAIN recs : converted[i].raised # None
             THEN Outcome(Some("AttributeError"), None, directory, stored)
             ELSE Outcome(None, Some(sidecar_path),
                          Written(directory, sidecar_path, contract_recs),
                          IF store_ok /\ session_id \notin existing_sessions
                          THEN stored \o contract_recs ELSE stored)

\* Lines 230-237, the report being written in directory reported.
WithSidecar(report_path, recs, today, reported, stored, store_ok) ==
    IF recs # <<>>
    THEN LET sidecar ==
                write_recommendations_sidecar(recs, today, reported, stored, store_ok)
         IN  IF sidecar.raised # None
             THEN Outcome(sidecar.raised, None, sidecar.disk, sidecar.store)
             ELSE Outcome(None, Some(report_path), sidecar.disk, sidecar.store)
    ELSE Outcome(None, Some(report_path), reported, stored)

\* Lines 71-237.
write_weekly_report(trend_analysis, result, today, directory, stored, store_ok) ==
    WithSidecar(today \o "-sky-lynx-report.md", result.recommendations, today,
                Written(directory, today \o "-sky-lynx-report.md",
                        Join(ReportLines(trend_analysis, result, today))),
                stored, store_ok)

\* The call is recorded, and what it left is the state of the directory and
\* of the store.
Leave(call, out) ==
    /\ report_calls' = Append(report_calls, call)
    /\ disk' = out.disk
    /\ store' = out.store
    /\ report_return' = [ raised |-> out.raised, value |-> out.value ]

\* A call of write_weekly_report.
WriteWeeklyReport ==
    /\ Len(report_calls) < MaxReportCalls
    /\ \E trend_analysis \in TrendPool, result \in ResultPool, today \in Dates,
          store_ok \in BOOLEAN :
        Leave([ function |-> "write_weekly_report",
                recommendations |-> result.recommendations,
                date |-> today, store_ok |-> store_ok ],
              write_weekly_report(trend_analysis, result, today, disk, store, store_ok))
    /\ UNCHANGED <<earlierVars, digestVars, mainVars, weekVars>>

\* A call of write_recommendations_sidecar.
WriteSidecar ==
    /\ Len(report_calls) < MaxReportCalls
    /\ \E recs \in RecommendationLists, date_str \in Dates, store_ok \in BOOLEAN :
        Leave([ function |-> "write_recommendations_sidecar",
                recommendations |-> recs,
                date |-> date_str, store_ok |-> store_ok ],
              write_recommendations_sidecar(recs, date_str, disk, store, store_ok))
    /\ UNCHANGED <<earlierVars, digestVars, mainVars, weekVars>>

NextReport == WriteWeeklyReport \/ WriteSidecar

SpecReport == Init /\ [][NextReport]_vars

(***************************************************************************)
(* analyze_insights (claude_client.py) and main, run_analysis              *)
(* (analyzer.py).                                                          *)
(***************************************************************************)
\* Lines 139-172.
build_analysis_prompt(metrics_summary, friction_details) ==
    Join(<< "Please analyze this week's Claude Code usage data and provide improvement recommendations for CLAUDE.md.",
            "",
            "## Weekly Metrics",
            metrics_summary,
            "",
            "## Friction Details" >>
         \o (IF friction_details # <<>>
             THEN [ i \in DOMAIN friction_details |-> "- " \o friction_details[i] ]
             ELSE << "No friction details recorded this week." >>)
         \o << "",
               "## Your Task",
               "",
               "1. Analyze the friction patterns and identify root causes",
               "2. Distinguish between recurring patterns and one-time anomalies",
               "3. Generate prioritized recommendations for CLAUDE.md improvements",
               "4. Note what's working well that should be reinforced",
               "",
               "Format your response with clear sections for:",
               "- Executive Summary (2-3 sentences)",
               "- Friction Analysis",
               "- Recommendations (with priority: high/medium/low, evidence, suggested change, and reversibility)",
               "- What's Working Well" >>)

\* Lines 283-298.
MockResult ==
    AnalysisResult("[DRY RUN] No API call made.",
                   "[DRY RUN] Would analyze friction patterns here.",
                   << [ Recommendation("[DRY RUN] Example recommendation") EXCEPT
                          !.evidence = "Example evidence",
                          !.suggested_change = "Example change",
                          !.impact = "Example impact" ] >>,
                   "[DRY RUN] Would identify positive patterns here.",
                   "[DRY RUN]")

\* The parameters of analyze_insights (lines 265-270), and those without a
\* default.
AnalyzeParameters == { "metrics_summary", "friction_details", "dry_run", "api_key" }

AnalyzeRequired == { "metrics_summary", "friction_details" }

\* Line 301: api_key or os.environ.get("ANTHROPIC_API_KEY")
Credential(api_key, env_key) ==
    IF api_key # None /\ api_key # Some("") THEN api_key ELSE env_key

\* Line 302 taking every key for a credential.
NeverMissing(key) == FALSE

\* Line 302: not key
MissingKey(key) == key = None \/ key = Some("")

\* The text the service answers with: it has no heading, so that
\* _parse_response_sections finds no section and parse_recommendations no
\* recommendation in it (lines 324-333).
Response == "All good this week."

\* What a call leaves: the exception raised or None, the value returned or
\* None, and the user prompts sent to the service.
CallOutcome(exception, value, sent) ==
    [ raised |-> exception, value |-> value, requests |-> sent ]

\* The call analyze_insights(**kwargs) with ANTHROPIC_API_KEY = env_key: the
\* binding of the arguments to the parameters of lines 265-270, which raises
\* TypeError for a keyword that is no parameter, then lines 282-333.  With
\* service_ok FALSE the service raises on the request.
analyze_insights(kwargs, env_key, service_ok) ==
    IF ~(DOMAIN kwargs \subseteq AnalyzeParameters /\ AnalyzeRequired \subseteq DOMAIN kwargs)
    THEN CallOutcome(Some("TypeError"), None, <<>>)
    ELSE LET dry_run == IF "dry_run" \in DOMAIN kwargs THEN kwargs.dry_run ELSE FALSE
             api_key == IF "api_key" \in DOMAIN kwargs THEN kwargs.api_key ELSE None
             key == Credential(api_key, env_key)
             user_prompt == build_analysis_prompt(kwargs.metrics_summary,
                                                  kwargs.friction_details)
         IN  IF dry_run THEN CallOutcome(None, Some(MockResult), <<>>)
             ELSE IF MissingKey(key) THEN CallOutcome(Some("ValueError"), None, <<>>)
             ELSE IF ~service_ok THEN CallOutcome(Some("APIError"), None, << user_prompt >>)
             ELSE CallOutcome(None, Some(AnalysisResult("", "", <<>>, "", Response)),
                         << user_prompt >>)

\* format_metrics_summary (lines 53-57 and 122) of a week without sessions and
\* without a previous week: every `if` of lines 60-116 is false.
EmptyWeekSummary ==
    Join(<< "**Period**: " \o DateStr(CurrentWeek[1]) \o " to " \o DateStr(CurrentWeek[2]),
            "**Total Sessions**: 0" >>)

\* The values of ANTHROPIC_API_KEY.
EnvKeys == { None, Some(""), Some("sk-env") }

\* What can fail around a run of main: the loading of the sessions, the
\* outcome store, the analysis service, the recommendation store, the PR.
Faults == { "insights", "outcomes", "service", "store", "pr" }

\* The keyword arguments of a call: the three of every call and more.
Keywords(dry_run, friction_details, more) ==
    [ k \in { "metrics_summary", "friction_details", "dry_run" } \cup DOMAIN more |->
        CASE k = "metrics_summary" -> EmptyWeekSummary
          [] k = "friction_details" -> friction_details
          [] k = "dry_run" -> dry_run
          [] OTHER -> more[k] ]

\* The call returns or raises.
LeaveCall(out) ==
    /\ raised' = out.raised
    /\ analysis_result' = out.value
    /\ requests' = out.requests

\* A call of analyze_insights by name, as the tests and other callers make it.
CallAnalyzeInsights ==
    /\ main_pc = "idle"
    /\ \E dry_run \in BOOLEAN, env_key \in EnvKeys, service_ok \in BOOLEAN,
          friction_details \in { <<>>, << "Test failure" >> },
          more \in { [ api_key |-> None ], [ api_key |-> Some("sk-arg") ],
                     [ api_key |-> Some("") ], [ x \in {} |-> None ] } :
        /\ main_args' = Some([ entry |-> "analyze_insights", dry_run |-> dry_run,
                               no_pr |-> FALSE,
                               api_key |-> IF "api_key" \in DOMAIN more
                                           THEN more.api_key ELSE None,
                               env_key |-> env_key,
                               faults |-> IF service_ok THEN {} ELSE { "service" } ])
        /\ LeaveCall(analyze_insights(Keywords(dry_run, friction_details, more),
                                      env_key, service_ok))
    /\ main_pc' = "done"
    /\ UNCHANGED <<outcome_digest, steps, exit_code, earlierVars, digestVars,
                   reportVars, weekVars>>

Args == main_args[1]

\* Lines 180-203: main is started with its flags, in some surroundings.
MainBegin ==
    /\ main_pc = "idle"
    /\ \E dry_run \in BOOLEAN, no_pr \in BOOLEAN, env_key \in EnvKeys,
          faults \in SUBSET Faults :
        main_args' = Some([ entry |-> "main", dry_run |-> dry_run, no_pr |-> no_pr,
                            api_key |-> None, env_key |-> env_key,
                            faults |-> faults ])
    /\ main_pc' = "load"
    /\ UNCHANGED <<outcome_digest, steps, requests, analysis_result, raised, exit_code,
                   earlierVars, digestVars, reportVars, weekVars>>

\* Lines 134-146: the sessions are loaded (here, none is found) and summarized.
LoadInsights ==
    /\ main_pc = "load"
    /\ "insights" \notin Args.faults
    /\ steps' = Append(steps, "load")
    /\ main_pc' = "outcomes"
    /\ UNCHANGED <<main_args, outcome_digest, requests, analysis_result, raised, exit_code,
                   earlierVars, digestVars, reportVars, weekVars>>

\* Line 135: load_weekly_analysis raises (a session file that is no object).
LoadInsightsRaise ==
    /\ main_pc = "load"
    /\ "insights" \in Args.faults
    /\ raised' = Some("AttributeError")
    /\ main_pc' = "except"
    /\ UNCHANGED <<main_args, outcome_digest, steps, requests, analysis_result, exit_code,
                   earlierVars, digestVars, reportVars, weekVars>>

\* Lines 149-154: the store holds records.
LoadOutcomeRecords ==
    /\ main_pc = "outcomes"
    /\ "outcomes" \notin Args.faults
    /\ \E record \in RecordPool :
        outcome_digest' = Some(build_outcome_digest(<< record >>))
    /\ main_pc' = "analyze"
    /\ UNCHANGED <<main_args, steps, requests, analysis_result, raised, exit_code,
                   earlierVars, digestVars, reportVars, weekVars>>

\* Lines 149-152, 155-156: the store holds no record.
NoOutcomeRecords ==
    /\ main_pc = "outcomes"
    /\ "outcomes" \notin Args.faults
    /\ outcome_digest' = None
    /\ main_pc' = "analyze"
    /\ UNCHANGED <<main_args, steps, requests, analysis_result, raised, exit_code,
                   earlierVars, digestVars, reportVars, weekVars>>

\* Lines 149-151, 157-158: the store raises, and the exception is logged.
OutcomeRecordsRaise ==
    /\ main_pc = "outcomes"
    /\ "outcomes" \in Args.faults
    /\ outcome_digest' = None
    /\ main_pc' = "analyze"
    /\ UNCHANGED <<main_args, steps, requests, analysis_result, raised, exit_code,
                   earlierVars, digestVars, reportVars, weekVars>>

\* What the rest of the try block leaves: the exception that left it or None,
\* the steps completed, the result of the analysis, the requests sent, the
\* directory and the store.
Rest(exception, done, result, sent, directory, stored) ==
    [ raised |-> exception, steps |-> done, result |-> result, requests |-> sent,
      disk |-> directory, store |-> stored ]

\* Lines 211-229, analyze_insights having left analysed and
\* write_weekly_report having left report.
AfterReport(analysed, report) ==
    IF report.raised # None
    THEN Rest(report.raised, Append(steps, "analysis"), analysed.value,
              analysed.requests, report.disk, report.store)
    ELSE IF Args.no_pr \/ Args.dry_run
    THEN Rest(None, steps \o << "analysis", "report" >>, analysed.value,
              analysed.requests, report.disk, report.store)
    ELSE IF "pr" \in Args.faults
    THEN Rest(Some("CalledProcessError"), steps \o << "analysis", "report" >>,
              analysed.value, analysed.requests, report.disk, report.store)
    ELSE Rest(None, steps \o << "analysis", "report", "pr" >>,
              analysed.value, analysed.requests, report.disk, report.store)

\* Lines 169-171 and 209-229, analyze_insights having left analysed.
AfterAnalysis(analysed, today) ==
    IF analysed.raised # None
    THEN Rest(analysed.raised, steps, None, analysed.requests, disk, store)
    ELSE AfterReport(analysed,
                     write_weekly_report(load_weekly_analysis(<<>>, <<>>),
                                         analysed.value[1], today, disk, store,
                                         "store" \notin Args.faults))

\* The try block is left: by `return 0` of line 229, or for line 231.
LeaveTry(out) ==
    /\ raised' = out.raised
    /\ steps' = out.steps
    /\ analysis_result' = out.result
    /\ requests' = requests \o out.requests
    /\ disk' = out.disk
    /\ store' = out.store
    /\ exit_code' = IF out.raised = None THEN Some(0) ELSE None
    /\ main_pc' = IF out.raised = None THEN "done" ELSE "except"

\* Lines 162-171 and 209-229: the call of analyze_insights with the four
\* keywords of lines 163-166, then the report, then the PR.
RunPipeline ==
    /\ main_pc = "analyze"
    /\ \E today \in Dates :
        LeaveTry(AfterAnalysis(
                    analyze_insights([ metrics_summary |-> EmptyWeekSummary,
                                       friction_details |-> <<>>,
                                       dry_run |-> Args.dry_run,
                                       outcome_digest |-> outcome_digest ],
                                     Args.env_key, "service" \notin Args.faults),
                    today))
    /\ UNCHANGED <<main_args, outcome_digest, report_calls, report_return,
                   earlierVars, digestVars, weekVars>>

\* Lines 231-233.
MainExcept ==
    /\ main_pc = "except"
    /\ exit_code' = Some(1)
    /\ main_pc' = "done"
    /\ UNCHANGED <<main_args, outcome_digest, steps, requests, analysis_result, raised,
                   earlierVars, digestVars, reportVars, weekVars>>

NextMain ==
    \/ CallAnalyzeInsights
    \/ MainBegin
    \/ LoadInsights
    \/ LoadInsightsRaise
    \/ LoadOutcomeRecords
    \/ NoOutcomeRecords
    \/ OutcomeRecordsRaise
    \/ RunPipeline
    \/ MainExcept

SpecMain == Init /\ [][NextMain]_vars

(***************************************************************************)
(* The week windows of load_weekly_analysis.  A datetime is a number of    *)
(* ticks since a Sunday 00:00:00, with TicksPerSecond ticks to the second  *)
(* (datetime and st_mtime resolve fractions of a second).                  *)
(***************************************************************************)
TicksPerSecond == 2

Second == TicksPerSecond

Day == 24 * 60 * 60 * Second

Week == 7 * Day

\* timedelta(days=, hours=, minutes=, seconds=)
timedelta(days, hours, minutes, seconds) ==
    (((days * 24 + hours) * 60 + minutes) * 60 + seconds) * Second

\* datetime.weekday(): Monday is 0 and Sunday is 6.
weekday(t) == ((t \div Day) + 6) % 7

\* replace(hour=0, minute=0, second=0, microsecond=0)
AtMidnight(t) == t - (t % Day)

\* Lines 310-316, today being what datetime.now() returned.
get_current_week_bounds(today) ==
    LET days_since_sunday == (weekday(today) + 1) % 7
        week_start == AtMidnight(today - timedelta(days_since_sunday, 0, 0, 0))
        week_end == week_start + timedelta(6, 23, 59, 59)
    IN  << week_start, week_end >>

\* Lines 325-328.
get_previous_week_bounds(today) ==
    LET current_start == get_current_week_bounds(today)[1]
        prev_end == current_start - timedelta(0, 0, 0, 1)
        prev_start == prev_end - timedelta(6, 23, 59, 59)
    IN  << prev_start, prev_end >>

\* Line 157, for one file.
InWindow(mod_date, bounds) == bounds[1] <= mod_date /\ mod_date <= bounds[2]

\* The times of day the model takes: midnight, the first tick and second after
\* it, noon, and the last second of the day up to its last tick.
TimesOfDay == { 0, 1, Second, Day \div 2, Day - Second - 1, Day - Second, Day - 1 }

\* These times of day on every day of the given weeks.
Instants(weeks) ==
    { w * Week + d * Day + t : w \in weeks, d \in 0..6, t \in TimesOfDay }

\* Line 340 is reached: the clock reads now and the directory holds a session
\* file last modified at mtime.
WeekBegin ==
    /\ week_pc = "idle"
    /\ \E now \in Instants({1}), mtime \in Instants({0, 1, 2}) :
          /\ week_now' = now
          /\ week_mtime' = mtime
    /\ week_pc' = "current_bounds"
    /\ UNCHANGED <<week_counted, week_bounds, earlierVars, digestVars, mainVars, reportVars>>

\* Line 340.
CurrentWeekBounds ==
    /\ week_pc = "current_bounds"
    /\ week_bounds' = [week_bounds EXCEPT !.current = Some(get_current_week_bounds(week_now))]
    /\ week_pc' = "previous_bounds"
    /\ UNCHANGED <<week_now, week_mtime, week_counted, earlierVars, digestVars, mainVars, reportVars>>

\* The clock moves on between the datetime.now() of line 340 and that of
\* line 341.
ClockAdvances ==
    /\ week_pc = "previous_bounds"
    /\ week_now' = week_now + 1
    /\ week_pc' = "previous_bounds_later"
    /\ UNCHANGED <<week_mtime, week_counted, week_bounds, earlierVars, digestVars, mainVars, reportVars>>

\* Line 341.
PreviousWeekBounds ==
    /\ week_pc \in { "previous_bounds", "previous_bounds_later" }
    /\ week_bounds' = [week_bounds EXCEPT !.previous = Some(get_previous_week_bounds(week_now))]
    /\ week_pc' = "load_current"
    /\ UNCHANGED <<week_now, week_mtime, week_counted, earlierVars, digestVars, mainVars, reportVars>>

\* Line 344: load_sessions_for_period for the current week.
LoadCurrentWeek ==
    /\ week_pc = "load_current"
    /\ week_counted' = IF InWindow(week_mtime, week_bounds.current[1])
                       THEN week_counted \cup { "current" }
                       ELSE week_counted
    /\ week_pc' = "load_previous"
    /\ UNCHANGED <<week_now, week_mtime, week_bounds, earlierVars, digestVars, mainVars, reportVars>>

\* Line 350: load_sessions_for_period for the previous week.
LoadPreviousWeek ==
    /\ week_pc = "load_previous"
    /\ week_counted' = IF InWindow(week_mtime, week_bounds.previous[1])
                       THEN week_counted \cup { "previous" }
                       ELSE week_counted
    /\ week_pc' = "done"
    /\ UNCHANGED <<week_now, week_mtime, week_bounds, earlierVars, digestVars, mainVars, reportVars>>

NextWeek ==
    \/ WeekBegin
    \/ CurrentWeekBounds
    \/ ClockAdvances
    \/ PreviousWeekBounds
    \/ LoadCurrentWeek
    \/ LoadPreviousWeek

SpecWeek == Init /\ [][NextWeek]_vars

(***************************************************************************)
(* Properties of the aggregator.                                           *)
(***************************************************************************)
AggDone == agg_pc = "done"

Result == metrics[1]

\* The names of the four distributions counted once per session, with the field
\* of the session each counts, and of the three merged from a dict of counts.
CountedFields ==
    { <<"outcomes", "outcome">>, <<"helpfulness", "claude_helpfulness">>,
      <<"session_types", "session_type">>, <<"primary_successes", "primary_success">> }

MergedFields ==
    { <<"satisfaction", "user_satisfaction_counts">>,
      <<"goal_categories", "goal_categories">>,
      <<"friction_counts", "friction_counts">> }

DistributionNames == { f[1] : f \in CountedFields \cup MergedFields }

\* Every key a session of the pool carries, and the empty string.
PoolKeys ==
    {""} \cup UNION { { s[f[2]] : f \in CountedFields } : s \in SessionPool }
         \cup UNION { UNION { DOMAIN s[f[2]] : f \in MergedFields } : s \in SessionPool }

NumberWith(sessions, field, k) ==
    Cardinality({ i \in 1..Len(sessions) : sessions[i][field] = k })

RECURSIVE TotalOf(_, _, _, _)
TotalOf(sessions, field, k, i) ==
    IF i > Len(sessions) THEN 0
    ELSE CounterGet(sessions[i][field], k) + TotalOf(sessions, field, k, i + 1)

\* C1: the metrics returned have total_sessions equal to the number of records
\* given, and sessions holds exactly those records in the same order.
C1_TotalIsLength ==
    AggDone => /\ Result.total_sessions = Len(agg_sessions)
               /\ Result.sessions = agg_sessions

C1_Witness ==
    /\ AggDone
    /\ Len(agg_sessions) = 3
    /\ agg_sessions[1] # agg_sessions[2]
    /\ Result.total_sessions = 3

\* C2: outcomes, helpfulness, session_types and primary_successes count the
\* records whose field equals the key and is non-empty (the empty string is never
\* a key); satisfaction, goal_categories and friction_counts hold the sum over
\* all records of the record's count for the key; on the empty list every
\* distribution is empty and so is friction_details.
C2_Distributions ==
    AggDone =>
        /\ \A f \in CountedFields :
              /\ "" \notin DOMAIN Result[f[1]]
              /\ \A k \in (PoolKeys \cup DOMAIN Result[f[1]]) \ {""} :
                    CounterGet(Result[f[1]], k) = NumberWith(agg_sessions, f[2], k)
              /\ \A k \in DOMAIN Result[f[1]] : Result[f[1]][k] >= 1
        /\ \A f \in MergedFields :
              \A k \in PoolKeys \cup DOMAIN Result[f[1]] :
                    CounterGet(Result[f[1]], k) = TotalOf(agg_sessions, f[2], k, 1)
        /\ agg_sessions = <<>> =>
              /\ \A n \in DistributionNames : Result[n] = EmptyDict
              /\ Result.friction_details = <<>>

C2_Witness ==
    /\ AggDone
    /\ Len(agg_sessions) = 2
    /\ CounterGet(Result.satisfaction, "likely_satisfied") = 3
    /\ CounterGet(Result.outcomes, "mostly_achieved") = 1
    /\ CounterGet(Result.friction_counts, "context_overflow") = 2
    /\ \E i \in 1..2 : agg_sessions[i].claude_helpfulness = ""

\* The sub-list of the sessions at the indices of I, in order.
RECURSIVE SubList(_, _, _)
SubList(sessions, I, i) ==
    IF i > Len(sessions) THEN <<>>
    ELSE (IF i \in I THEN <<sessions[i]>> ELSE <<>>) \o SubList(sessions, I, i + 1)

Aggregated(sessions) ==
    aggregate_weekly_metrics(sessions, agg_period[1], agg_period[2])

\* Two aggregates added entry by entry give the aggregate m.
SumsTo(a, b, m) ==
    /\ a.total_sessions + b.total_sessions = m.total_sessions
    /\ \A n \in DistributionNames :
          \A k \in DOMAIN a[n] \cup DOMAIN b[n] \cup DOMAIN m[n] :
              CounterGet(a[n], k) + CounterGet(b[n], k) = CounterGet(m[n], k)

\* C3: for any split of the list into two sub-lists, the two aggregates added
\* entry by entry (and their total_sessions added) give the aggregate of the
\* full list; so does the aggregate of any reordering of the list.
C3_Additive ==
    AggDone =>
        LET n == Len(agg_sessions) IN
        /\ \A I \in SUBSET (1..n) :
              SumsTo(Aggregated(SubList(agg_sessions, I, 1)),
                     Aggregated(SubList(agg_sessions, (1..n) \ I, 1)),
                     Result)
        /\ \A p \in Permutations(1..n) :
              SumsTo(Aggregated([i \in 1..n |-> agg_sessions[p[i]]]),
                     Aggregated(<<>>),
                     Result)

C3_Witness ==
    /\ AggDone
    /\ Len(agg_sessions) = 3
    /\ \A i \in 1..3 : "buggy_code" \in DOMAIN agg_sessions[i].friction_counts
    /\ agg_sessions[1] # agg_sessions[3]
    /\ CounterGet(Result.friction_counts, "buggy_code") = 4

RECURSIVE NonEmptyDetails(_, _)
NonEmptyDetails(sessions, i) ==
    IF i > Len(sessions) THEN <<>>
    ELSE LET d == sessions[i].friction_detail
         IN  (IF d = "" THEN <<>> ELSE <<d>>) \o NonEmptyDetails(sessions, i + 1)

\* C4: friction_details is the sequence of the non-empty friction_detail strings
\* of the records, in input order, one entry per such record, duplicates kept.
C4_FrictionDetails ==
    AggDone => Result.friction_details = NonEmptyDetails(agg_sessions, 1)

C4_Witness ==
    /\ AggDone
    /\ Len(agg_sessions) = 3
    /\ agg_sessions[2].friction_detail = ""
    /\ Result.friction_details = <<"missing dependency", "missing dependency">>
    /\ agg_sessions[1] # agg_sessions[3]

(***************************************************************************)
(* Properties of the trend engine.                                         *)
(***************************************************************************)
Called(name) == trend_pc = "done" /\ trend_call[1] = name

Returned == trend_result[1]

\* |x - num / den| <= 2^-40 * |num / den| for a float x and ints num, den (den > 0):
\* with x = man * 2^exp and s = -exp > 0, that is
\* |man * den - |num| * 2^s| * 2^40 <= |num| * 2^s, signs agreeing.
CloseTo(x, num, den) ==
    IF num = 0 THEN x = FZero
    ELSE /\ x # FZero
         /\ x.sign = (IF num < 0 THEN 1 ELSE 0)
         /\ x.exp < 0
         /\ LET scaled == NatBits(Abs(num)) \o Zeros(-x.exp)
                mine == MulSmall(x.man, den)
                gap == IF BitsCmp(mine, scaled) >= 0 THEN BitsSub(mine, scaled)
                       ELSE BitsSub(scaled, mine)
            IN  gap = <<>> \/ BitsCmp(gap \o Zeros(40), scaled) <= 0

\* C5: calculate_percentage_change(curr, prev) on non-negative ints: with prev = 0
\* it is 100.0 when curr > 0 and 0.0 when curr = 0; with prev > 0 it is
\* (curr - prev) / prev * 100 unrounded (to float accuracy), hence 0 iff
\* curr = prev, positive iff curr > prev, negative iff curr < prev, and never
\* below -100.
C5_PercentageChange ==
    Called("calculate_percentage_change") =>
        LET curr == trend_call[2]
            prev == trend_call[3]
        IN  /\ prev = 0 => Returned = (IF curr > 0 THEN FromInt(100) ELSE FZero)
            /\ prev > 0 =>
                /\ CloseTo(Returned, (curr - prev) * 100, prev)
                /\ FCmp(Returned, FZero) = 0 <=> curr = prev
                /\ FCmp(Returned, FZero) = 1 <=> curr > prev
                /\ FCmp(Returned, FZero) = -1 <=> curr < prev
                /\ FCmp(Returned, FromInt(-100)) >= 0

C5_Witness ==
    /\ Called("calculate_percentage_change")
    /\ trend_call[2] = 5
    /\ trend_call[3] = 0
    /\ Returned = FromInt(100)

\* sum(counter.values()), key by key over the keys of the pool.
RECURSIVE TotalCount(_, _)
TotalCount(c, keys) ==
    IF keys = {} THEN 0
    ELSE LET k == CHOOSE x \in keys : TRUE
         IN  CounterGet(c, k) + TotalCount(c, keys \ {k})

FrictionKeys == UNION { DOMAIN f : f \in FrictionPool } \cup PoolKeys

\* A call that compared two periods: analyze_trends with a previous period, or
\* load_weekly_analysis with a session loaded for the previous week.
Compared ==
    /\ Called("analyze_trends") \/ Called("load_weekly_analysis")
    /\ Returned.previous # None

\* C6: with a previous period, session_count_change is the percentage change of
\* total_sessions and friction_change that of the sums of all friction counts
\* (friction events, not friction types); 3 sessions against 2 give 50.0 and
\* a friction total of 2 against 4 gives -50.0.
C6_Changes ==
    Compared =>
        LET cur == Returned.current
            prev == Returned.previous[1]
            cf == TotalCount(cur.friction_counts, FrictionKeys)
            pf == TotalCount(prev.friction_counts, FrictionKeys)
        IN  /\ Returned.session_count_change =
                  calculate_percentage_change(cur.total_sessions, prev.total_sessions)
            /\ Returned.friction_change = calculate_percentage_change(cf, pf)
            /\ (cur.total_sessions = 3 /\ prev.total_sessions = 2) =>
                  Returned.session_count_change = FromInt(50)
            /\ (cf = 2 /\ pf = 4) => Returned.friction_change = FromInt(-50)

C6_Witness ==
    /\ Called("analyze_trends")
    /\ Returned.previous # None
    /\ Returned.current.total_sessions = 3
    /\ Returned.previous[1].total_sessions = 2
    /\ Returned.current.friction_counts = Dict2("buggy_code", 1, "context_overflow", 1)
    /\ Returned.previous[1].friction_counts = Dict1("buggy_code", 4)
    /\ Returned.session_count_change = FromInt(50)
    /\ Returned.friction_change = FromInt(-50)

\* C7: analyze_trends(current, None) has no previous period, satisfaction_trend
\* "baseline" and both changes 0.0, whatever current holds; and the analysis of
\* load_weekly_analysis has no previous period exactly when no session was
\* loaded for the previous week.
C7_Baseline ==
    /\ (Called("analyze_trends") \/ Called("load_weekly_analysis")) =>
          /\ trend_call[1] = "analyze_trends" =>
                (Returned.previous = None <=> trend_call[3] = None)
          /\ Returned.previous = None =>
                /\ Returned.satisfaction_trend = "baseline"
                /\ Returned.session_count_change = FZero
                /\ Returned.friction_change = FZero
    /\ Called("load_weekly_analysis") =>
          (Returned.previous = None <=> trend_call[3] = <<>>)

C7_Witness ==
    /\ Called("analyze_trends")
    /\ trend_call[3] = None
    /\ Returned.previous = None
    /\ Returned.current.total_sessions = 3
    /\ Returned.current.friction_counts # EmptyDict
    /\ Returned.current.satisfaction # EmptyDict
    /\ Returned.satisfaction_trend = "baseline"

\* The score of a satisfaction counter as a fraction <<numerator, denominator>>:
\* (likely_satisfied - likely_unsatisfied) / (the sum of all counts), 0 when the
\* sum is 0.
ExactScore(c) ==
    LET total == TotalCount(c, DOMAIN c)
    IN  IF total = 0 THEN <<0, 1>>
        ELSE <<CounterGet(c, "likely_satisfied") - CounterGet(c, "likely_unsatisfied"), total>>

\* 10 * (score(current) - score(previous)) * (the product of the denominators).
TenfoldDifference(current, previous) ==
    10 * (ExactScore(current)[1] * ExactScore(previous)[2]
          - ExactScore(previous)[1] * ExactScore(current)[2])

\* C8: calculate_satisfaction_trend returns "improving" iff
\* score(current) - score(previous) > 0.1, "declining" iff it is < -0.1 and
\* "stable" otherwise, the inequalities strict: a difference of exactly 0.1 or
\* exactly -0.1 is "stable".
C8_TrendByScore ==
    (Called("calculate_satisfaction_trend") /\ trend_call[3] # None) =>
        LET d == TenfoldDifference(trend_call[2], trend_call[3][1])
            unit == ExactScore(trend_call[2])[2] * ExactScore(trend_call[3][1])[2]
        IN  Returned = (IF d > unit THEN "improving"
                        ELSE IF d < -unit THEN "declining"
                        ELSE "stable")

(***************************************************************************)
(* Properties of parse_recommendations.                                    *)
(***************************************************************************)
Parsed == rec_pc = "done"

\* The number of items of a text of 2n + 2 lines.
ItemCount(text) == (Len(text) - 2) \div 2

AttributeWords == { "priority", "high", "low", "suggest", "change", "reversib" }

\* The text is a "## Recommendations" heading, then n (1 to 5) times a line
\* "k. Consider ..." and a line "- Evidence: ..." with none of the attribute
\* words, then a "## What's Working Well" heading.
CleanLayout(text) ==
    LET n == ItemCount(text)
    IN  /\ n \in 1..5
        /\ Len(text) = 2 * n + 2
        /\ text[1] = "## Recommendations"
        /\ text[Len(text)] = "## What's Working Well"
        /\ \A k \in 1..n :
              /\ StartsWith(text[2 * k], DigitOf(k) \o ". Consider")
              /\ StartsWith(text[2 * k + 1], "- Evidence:")
              /\ \A w \in AttributeWords : ~Contains(Lower(text[2 * k + 1]), w)

\* The numbered line without "k. ", and the evidence line without "- ".
WithoutMarker(line) == SubSeq(line, 4, Len(line))

WithoutBullet(line) == SubSeq(line, 3, Len(line))

\* The list returned is the items of text, in text order.
ItemsReturned(text) ==
    /\ Len(recommendations) = ItemCount(text)
    /\ \A k \in 1..ItemCount(text) :
          /\ recommendations[k].title = WithoutMarker(text[2 * k])
          /\ recommendations[k].evidence = WithoutBullet(text[2 * k + 1])
          /\ recommendations[k].priority = "medium"
          /\ recommendations[k].reversibility = "high"

EndsWith(s, suffix) ==
    Len(suffix) <= Len(s) /\ SubSeq(s, Len(s) - Len(suffix) + 1, Len(s)) = suffix

\* No numbered or evidence line contains "working well" or ends with
\* whitespace, and no numbered line ends with an asterisk.
PlainItems(text) ==
    \A i \in 2..(Len(text) - 1) :
        /\ ~Contains(Lower(text[i]), "working well")
        /\ \A c \in Whitespace : ~EndsWith(text[i], c)
        /\ i % 2 = 0 => ~EndsWith(text[i], "*")

\* C9 as stated: on every text of the clean layout parse_recommendations returns
\* exactly the N items in text order, each with its numbered line without the
\* number marker as title, its evidence line without the bullet as evidence,
\* priority "medium" and reversibility "high".
C9_CleanInputAnyItems ==
    (Parsed /\ CleanLayout(lines)) => ItemsReturned(lines)

\* C9: on a text of the clean layout in which no numbered or evidence line
\* contains "working well" (in any case) or ends with whitespace and no numbered
\* line ends with an asterisk, parse_recommendations returns exactly the N items
\* in text order, each with its numbered line without the number marker as
\* title, its evidence line without the bullet as evidence, priority "medium"
\* and reversibility "high".
C9_CleanInput ==
    (Parsed /\ CleanLayout(lines) /\ PlainItems(lines)) => ItemsReturned(lines)

C9_Witness ==
    /\ Parsed /\ CleanLayout(lines) /\ PlainItems(lines)
    /\ ItemCount(lines) = 5
    /\ lines[2] # "1. " \o WithoutMarker(lines[4])
    /\ Len(recommendations) = 5
    /\ recommendations[1].title = "Consider adding a test checklist"
    /\ recommendations[1].evidence = "Evidence: 3 sessions"

\* No line both contains "recommendation" in any case and starts with "#" or "**".
NoHeading(text) ==
    \A i \in 1..Len(text) :
        \/ ~Contains(Lower(text[i]), "recommendation")
        \/ ~StartsWith(text[i], "#") /\ ~StartsWith(text[i], "**")

\* C10: on a text with no line that both contains "recommendation" (in any case)
\* and starts with "#" or "**", parse_recommendations never enters the section,
\* starts no recommendation and returns the empty list, whatever the other lines
\* contain.
C10_NothingOutsideSection ==
    (rec_pc # "idle" /\ NoHeading(lines)) =>
        /\ ~in_recommendations
        /\ current_rec = None
        /\ recommendations = <<>>

C10_Witness ==
    /\ Parsed
    /\ lines = << "Recommendations:", "1. Consider adding a test checklist",
                  "- Evidence: 3 sessions", "- Priority: high" >>
    /\ NoHeading(lines)
    /\ recommendations = <<>>

\* The loop reads Line in this step.
ReadsLine == Scanning /\ line_no' = line_no + 1

\* The words the properties look for in a line, and for every line of the
\* texts the words its lower-case form contains.
Words ==
    { "recommendation", "working well", "consider", "add", "update", "priority",
      "high", "low", "impact", "evidence", "session", "suggest", "change",
      "reversib", "executive", "summary", "friction", "analysis" }

WordsIn == [ line \in KnownLines |-> { w \in Words : Contains(Lower(line), w) } ]

HasAny(s, words) == words \cap WordsIn[s] # {}

\* The words that let a numbered or bold line start a recommendation.
StartWords == { "consider", "add", "update" }

\* C11: while the scan is inside the recommendations section, a line that
\* starts with "**" or "#" and contains "recommendation" is not taken as a
\* section heading: if it contains "working well" it ends the section, and
\* otherwise, if it starts with "**" and contains consider, add or update, it
\* starts a new recommendation.
C11_HeadingOnlyOutside ==
    [][ ( /\ ReadsLine
          /\ in_recommendations
          /\ HasAny(Line, {"recommendation"})
          /\ StartsWith(Line, "**") \/ StartsWith(Line, "#") )
        => /\ HasAny(Line, {"working well"}) => ~in_recommendations'
           /\ ( /\ ~HasAny(Line, {"working well"})
                /\ StartsWith(Line, "**")
                /\ HasAny(Line, StartWords) )
              => /\ current_rec' # None
                 /\ current_rec'[1].title = TitleOf(Line)
                 /\ in_recommendations' ]_vars

\* The line contains "recommendation" and starts with "#" or "**".
HeadingLike(line) ==
    /\ HasAny(line, {"recommendation"})
    /\ StartsWith(line, "#") \/ StartsWith(line, "**")

\* C12: a line containing "working well" (in any case) that is read inside the
\* section and is not a recommendations heading appends the recommendation in
\* progress, if any, to the list, clears it and leaves the section; and a line
\* read outside the section that is not a recommendations heading changes
\* neither the list nor the recommendation in progress and stays outside.
C12_SectionExit ==
    [][ /\ ( ReadsLine /\ in_recommendations /\ ~HeadingLike(Line)
             /\ HasAny(Line, {"working well"}) )
           => /\ recommendations' =
                    IF current_rec = None THEN recommendations
                    ELSE recommendations \o current_rec
              /\ current_rec' = None
              /\ ~in_recommendations'
        /\ ( ReadsLine /\ ~in_recommendations /\ ~HeadingLike(Line) )
           => /\ UNCHANGED <<recommendations, current_rec, laterVars>>
              /\ ~in_recommendations' ]_vars

C12_Witness ==
    /\ Parsed
    /\ lines = << "## Recommendations", "1. Consider adding high priority checks",
                  "## What's Working Well", "**Update the docs**" >>
    /\ Len(recommendations) = 1
    /\ recommendations[1].title = "Consider adding high priority checks"
    /\ current_rec = None
    /\ ~in_recommendations

\* The line, trimmed, starts with "1." to "5." or with "**", and contains
\* consider, add or update.
StartLike(line) ==
    /\ \/ \E k \in 1..5 : StartsWith(Strip(line), DigitOf(k) \o ".")
       \/ StartsWith(Strip(line), "**")
    /\ HasAny(line, StartWords)

\* The line is read inside the section and starts a recommendation.
StartsRecommendation ==
    /\ ReadsLine
    /\ in_recommendations
    /\ ~HeadingLike(Line)
    /\ ~HasAny(Line, {"working well"})
    /\ StartLike(Line)

\* The record a starting line makes, with the given title.
FreshRecord(title) ==
    [ title |-> title, priority |-> "medium", evidence |-> "",
      suggested_change |-> "", impact |-> "", reversibility |-> "high" ]

\* The line without its leading whitespace, digits, dots and asterisks.
LeadingStripped(line) == LStripChars(line, Whitespace \cup Digits \cup {".", "*"})

\* The line without surrounding whitespace, then without leading digits and
\* dots, then without whitespace and asterisks at both ends.
MarkersStripped(line) ==
    LET unnumbered == LStripChars(StripChars(line, Whitespace), Digits \cup {"."})
    IN  StripChars(StripChars(StripChars(unnumbered, Whitespace), {"*"}), Whitespace)

\* The list after the recommendation in progress, if any, has been appended.
PreviousAppended ==
    IF current_rec = None THEN recommendations ELSE recommendations \o current_rec

\* C13 as stated: a line that starts a recommendation appends the
\* recommendation in progress, if any, and makes a new one whose title is the
\* line stripped of its leading number, punctuation and emphasis markers, with
\* priority "medium", reversibility "high" and the other fields empty; the
\* starting line is not applied to it as an attribute line.
C13_StartLeadingStripped ==
    [][ StartsRecommendation
        => /\ recommendations' = PreviousAppended
           /\ current_rec' = Some(FreshRecord(LeadingStripped(Line))) ]_vars

\* C13: a line that starts a recommendation appends the recommendation in
\* progress, if any, and makes a new one whose title is the line without
\* surrounding whitespace, leading digits and dots, and whitespace and asterisks
\* at both ends, with priority "medium", reversibility "high" and the other
\* fields empty; the starting line is not applied to it as an attribute line.
C13_Start ==
    [][ StartsRecommendation
        => /\ recommendations' = PreviousAppended
           /\ current_rec' = Some(FreshRecord(MarkersStripped(Line))) ]_vars

C13_Witness ==
    /\ Parsed
    /\ lines = << "## Recommendations", "**Update the docs**",
                  "- Priority: low", "1. Consider adding high priority checks" >>
    /\ Len(recommendations) = 2
    /\ recommendations[1].title = "Update the docs"
    /\ recommendations[1].priority = "low"
    /\ recommendations[2] = FreshRecord("Consider adding high priority checks")

\* The line is read inside the section as an attribute line of the
\* recommendation in progress.
EnrichesRecommendation ==
    /\ ReadsLine
    /\ in_recommendations
    /\ ~HeadingLike(Line)
    /\ ~HasAny(Line, {"working well"})
    /\ ~StartLike(Line)
    /\ current_rec # None

\* The line without surrounding whitespace, leading "-" and "*", and the
\* whitespace after them.
BulletStripped(line) ==
    StripChars(LStripChars(StripChars(line, Whitespace), {"-", "*"}), Whitespace)

EvidenceWords == { "evidence", "session" }

ChangeWords == { "suggest", "change" }

EnrichmentWords ==
    EvidenceWords \cup ChangeWords \cup { "priority", "high", "reversib" }

\* No line of the text after its first is a heading or ends the section.
AllInSection(text) ==
    \A i \in 2..Len(text) : ~HeadingLike(text[i]) /\ ~HasAny(text[i], {"working well"})

\* The index of the last line of text that starts a recommendation.
StartLine(text) == Last({ i \in 2..Len(text) : StartLike(text[i]) })

\* The bullet-stripped text of the last line of text after line start that
\* contains one of words, or "" without such a line.
LastMatch(text, start, words) ==
    LET matches == { i \in (start + 1)..Len(text) : HasAny(text[i], words) }
    IN  IF matches = {} THEN "" ELSE BulletStripped(text[Last(matches)])

\* C14: an attribute line sets evidence to its bullet-stripped text iff it
\* contains evidence or session, and suggested_change likewise iff it contains
\* suggest or change, independently of one another; a line with no keyword
\* changes no field; so when a text whose lines are all inside the section has
\* been read, evidence and suggested_change of the recommendation in progress
\* are the bullet-stripped text of the last matching line after its starting
\* line, or empty when none matched.
C14_LastWriteWins ==
    /\ [][ EnrichesRecommendation
           => /\ current_rec' # None
              /\ current_rec'[1].evidence =
                    IF HasAny(Line, EvidenceWords) THEN BulletStripped(Line)
                    ELSE current_rec[1].evidence
              /\ current_rec'[1].suggested_change =
                    IF HasAny(Line, ChangeWords) THEN BulletStripped(Line)
                    ELSE current_rec[1].suggested_change
              /\ ~HasAny(Line, EnrichmentWords) => current_rec' = current_rec
              /\ UNCHANGED <<recommendations, in_recommendations, laterVars>> ]_vars
    /\ []( ( rec_pc = "scan" /\ line_no > Len(lines) /\ current_rec # None
             /\ AllInSection(lines) )
           => LET start == StartLine(lines)
              IN  /\ current_rec[1].evidence = LastMatch(lines, start, EvidenceWords)
                  /\ current_rec[1].suggested_change = LastMatch(lines, start, ChangeWords) )

C14_Witness ==
    /\ Parsed
    /\ lines = << "## Recommendations", "**Update the docs**",
                  "- Evidence: 3 sessions", "- Suggested change: review each session" >>
    /\ Len(recommendations) = 1
    /\ recommendations[1].evidence = "Suggested change: review each session"
    /\ recommendations[1].suggested_change = "Suggested change: review each session"

\* C15: an attribute line changes the priority only if it contains "priority",
\* or contains "high" and not "impact"; then the priority becomes "high" if the
\* line contains "high", else "low" if it contains "low", else stays as it was.
\* No attribute line sets the priority back to "medium".
C15_Priority ==
    [][ EnrichesRecommendation
        => /\ current_rec' # None
           /\ current_rec'[1].priority =
                 IF HasAny(Line, {"priority"})
                    \/ (HasAny(Line, {"high"}) /\ ~HasAny(Line, {"impact"}))
                 THEN IF HasAny(Line, {"high"}) THEN "high"
                      ELSE IF HasAny(Line, {"low"}) THEN "low"
                      ELSE current_rec[1].priority
                 ELSE current_rec[1].priority
           /\ ( HasAny(Line, {"high"}) /\ HasAny(Line, {"impact"})
                /\ ~HasAny(Line, {"priority"}) )
              => current_rec'[1].priority = current_rec[1].priority
           /\ current_rec'[1].priority = "medium" => current_rec[1].priority = "medium"
      ]_vars

C15_Witness ==
    /\ Parsed
    /\ lines = << "## Recommendations", "**Update the docs**", "- Priority: low",
                  "- High impact" >>
    /\ Len(recommendations) = 1
    /\ recommendations[1].priority = "low"

\* C16: no recommendation of the list has an empty title, whether it was
\* appended at a later starting line, at the end of the section or at the end
\* of the text.
C16_NoEmptyTitle ==
    \A i \in 1..Len(recommendations) : recommendations[i].title # ""

C16_Witness ==
    /\ Parsed
    /\ lines = << "## Recommendations", "**Update the docs**",
                  "1. Consider adding high priority checks", "## What's Working Well" >>
    /\ Len(recommendations) = 2
    /\ recommendations[2].title = "Consider adding high priority checks"

Levels == { "high", "medium", "low" }

\* The recommendations of the list and the one in progress.
AllRecords ==
    { recommendations[i] : i \in 1..Len(recommendations) }
        \cup { current_rec[i] : i \in 1..Len(current_rec) }

\* C17: every recommendation has its priority and its reversibility among
\* high, medium and low, and an empty impact; an attribute line that contains
\* "reversib" sets reversibility to "high" if it contains "high", else to "low"
\* if it contains "low", else to "medium", and any other attribute line leaves
\* reversibility as it was.
C17_Levels ==
    /\ []( \A rec \in AllRecords :
              /\ rec.priority \in Levels
              /\ rec.reversibility \in Levels
              /\ rec.impact = "" )
    /\ [][ EnrichesRecommendation
           => /\ current_rec' # None
              /\ current_rec'[1].reversibility =
                    IF HasAny(Line, {"reversib"})
                    THEN IF HasAny(Line, {"high"}) THEN "high"
                         ELSE IF HasAny(Line, {"low"}) THEN "low"
                         ELSE "medium"
                    ELSE current_rec[1].reversibility ]_vars

C17_Witness ==
    /\ Parsed
    /\ lines = << "## Recommendations", "**Update the docs**", "- Reversibility: low",
                  "- Reversibility: unclear" >>
    /\ Len(recommendations) = 1
    /\ recommendations[1].reversibility = "medium"
    /\ recommendations[1].priority = "medium"
    /\ recommendations[1].impact = ""

(***************************************************************************)
(* Properties of _parse_response_sections.                                 *)
(***************************************************************************)
SplitDone == split_pc = "done"

\* The section a heading line starts: one of the three names, "recommendations"
\* for the heading of the section that is not collected, "" for a line that is
\* no heading.
HeadingOf(line) ==
    IF HasAny(line, {"executive"}) /\ HasAny(line, {"summary"}) THEN "executive_summary"
    ELSE IF HasAny(line, {"friction"}) /\ HasAny(line, {"analysis"}) THEN "friction_analysis"
    ELSE IF HasAny(line, {"working well"}) THEN "whats_working"
    ELSE IF HasAny(line, {"recommendation"}) /\ StartsWith(line, "#") THEN "recommendations"
    ELSE ""

Headings(text) == { i \in 1..Len(text) : HeadingOf(text[i]) # "" }

NotHeader(line) == ~StartsWith(line, "#")

\* The lines between the heading at h and the next heading, those that start
\* with "#" left out.
ContentOf(text, h) ==
    LET later == { i \in Headings(text) : i > h }
        stop == IF later = {} THEN Len(text) + 1 ELSE First(later)
    IN  SelectSeq(SubSeq(text, h + 1, stop - 1), NotHeader)

\* The content of the last heading of section name that has content, joined
\* and trimmed; "" when there is none.
SectionText(text, name) ==
    LET with == { h \in Headings(text) :
                    HeadingOf(text[h]) = name /\ ContentOf(text, h) # <<>> }
    IN  IF with = {} THEN "" ELSE Strip(Join(ContentOf(text, Last(with))))

\* C18: _parse_response_sections always has exactly the keys executive_summary,
\* friction_analysis and whats_working, and returns for each of them the lines
\* that follow a heading of that section up to the next heading (the last such
\* heading with content), so that a section without heading is empty, a line
\* before the first heading is in no section and a line is in no section other
\* than that of the most recent heading before it.
C18_Sections ==
    /\ DOMAIN sections = SectionNames
    /\ SplitDone => \A name \in SectionNames :
                       sections[name] = SectionText(split_lines, name)

C18_Witness ==
    /\ SplitDone
    /\ split_lines = << "Tests pass quickly", "## Friction Analysis",
                        "Tests pass quickly", "## What's Working Well" >>
    /\ sections["friction_analysis"] = "Tests pass quickly"
    /\ sections["executive_summary"] = ""
    /\ sections["whats_working"] = ""

\* C19: a line read while a section is being collected ends that section as
\* the heading of the recommendations section exactly if parse_recommendations
\* takes the line for the recommendations heading, that is, if it contains
\* "recommendation" and starts with "#" or "**".
C19_SameHeadingTest ==
    [][ ( SplitScanning /\ split_no' = split_no + 1 /\ current_section # None )
        => ( current_section' = None <=> HeadingLike(SplitLine) ) ]_vars

(***************************************************************************)
(* Properties of load_sessions_for_period.                                 *)
(***************************************************************************)
\* The sessions of the files of directory that were modified in the period and
\* hold a well-formed session, in directory order.
RECURSIVE SessionsOf(_)
SessionsOf(directory) ==
    IF directory = <<>> THEN <<>>
    ELSE LET file == Head(directory)
         IN  ( IF PeriodStart <= file.mtime /\ file.mtime <= PeriodEnd
                  /\ file.data = "valid"
               THEN << SessionInsight(file.stem) >>
               ELSE <<>> ) \o SessionsOf(Tail(directory))

\* C20: load_sessions_for_period never lets an exception out, whatever a
\* session file holds (a file that cannot be read, invalid JSON, JSON that is
\* not an object, a field of the wrong type), and returns exactly one session
\* for every other file modified in [start, end].
C20_ErrorsAbsorbed ==
    /\ load_pc # "raised"
    /\ load_pc = "done" => load_sessions = SessionsOf(files)

(***************************************************************************)
(* Properties of build_outcome_digest.                                     *)
(***************************************************************************)
DigestDone == digest_pc = "done"

\* The records that carry a score.
Scored == { i \in DOMAIN digest_records : digest_records[i].overall_score # None }

ScoreOf(i) == digest_records[i].overall_score[1]

RECURSIVE ScoreSum(_)
ScoreSum(S) ==
    IF S = {} THEN 0
    ELSE LET i == CHOOSE x \in S : TRUE IN ScoreOf(i) + ScoreSum(S \ {i})

\* C21: build_outcome_digest of no records is the fixed sentence "No outcome
\* records available yet." (nothing is divided); of one record or more it is a
\* text that holds the score distribution exactly if some record carries a
\* score, and then the average, the least and the greatest are those of the
\* records that carry one, the others being left out rather than read as 0.
C21_ZeroDivisionGuard ==
    DigestDone =>
        /\ digest # None
        /\ digest_records = <<>> => digest[1] = "No outcome records available yet."
        /\ digest_records # <<>> =>
            /\ Contains(digest[1], "**Score Distribution**:") <=> Scored # {}
            /\ Scored # {} =>
                /\ Contains(digest[1],
                        "\n  - Average: "
                        \o Fixed(IntDiv(ScoreSum(Scored), Cardinality(Scored)), 1)
                        \o "\n")
                /\ \E low \in Scored, high \in Scored :
                    /\ \A i \in Scored : ScoreOf(low) <= ScoreOf(i)
                                         /\ ScoreOf(i) <= ScoreOf(high)
                    /\ Contains(digest[1],
                            "\n  - Range: " \o Str(ScoreOf(low)) \o " - "
                            \o Str(ScoreOf(high)))

\* A digest of records of which some carry a score, not 0, and some carry none.
C21_Witness ==
    /\ DigestDone
    /\ Scored # {}
    /\ Scored # DOMAIN digest_records
    /\ \A i \in Scored : ScoreOf(i) > 0
    /\ Contains(digest[1], "**Score Distribution**:")

\* The lines of a text.
TextLines(s) ==
    LET breaks == { i \in 1..Len(s) : CharAt(s, i) = "\n" }
        n == Cardinality(breaks)
        Break(j) == CHOOSE i \in breaks : Cardinality({ b \in breaks : b < i }) = j - 1
    IN  [ j \in 1..(n + 1) |->
            SubSeq(s, IF j = 1 THEN 1 ELSE Break(j - 1) + 1,
                      IF j = n + 1 THEN Len(s) ELSE Break(j) - 1) ]

DigestText == TextLines(digest[1])

\* The lines that follow the line heading, up to the next empty line.
ItemsUnder(text, heading) ==
    LET at == { i \in DOMAIN text : text[i] = heading }
    IN  IF at = {} THEN <<>>
        ELSE LET h == CHOOSE i \in at : TRUE
                 stops == { i \in (h + 1)..Len(text) : text[i] = "" }
                 last == IF stops = {} THEN Len(text)
                         ELSE (CHOOSE i \in stops : \A j \in stops : i <= j) - 1
             IN  SubSeq(text, h + 1, last)

\* The number of records whose outcome is label.
OutcomeCount(label) ==
    Cardinality({ i \in DOMAIN digest_records : digest_records[i].outcome = label })

\* The number of times tag stands in a tech stack of the records.
TagCount(tag) ==
    LET Times(stack) == Cardinality({ j \in DOMAIN stack : stack[j] = tag })
        RECURSIVE Upto(_)
        Upto(i) == IF i = 0 THEN 0 ELSE Upto(i - 1) + Times(digest_records[i].tech_stack)
    IN  Upto(Len(digest_records))

OutcomesPresent == { digest_records[i].outcome : i \in DOMAIN digest_records }

TagsPresent ==
    UNION { { digest_records[i].tech_stack[j] : j \in DOMAIN digest_records[i].tech_stack } :
            i \in DOMAIN digest_records }

\* The lines list each of the keys listed once with its count, the counts
\* never increasing, and no key left out has a larger count than one listed.
ListsByCount(items, keys, Count(_), Shown(_, _)) ==
    /\ \A i \in DOMAIN items : \E k \in keys : items[i] = Shown(k, Count(k))
    /\ \A i, j \in DOMAIN items :
        \A k \in keys, l \in keys :
            ( items[i] = Shown(k, Count(k)) /\ items[j] = Shown(l, Count(l)) ) =>
                /\ ( i # j => k # l )
                /\ ( i < j => Count(k) >= Count(l) )
    /\ \A k \in keys, l \in keys :
        ( ( \E i \in DOMAIN items : items[i] = Shown(k, Count(k)) )
          /\ ~ \E i \in DOMAIN items : items[i] = Shown(l, Count(l)) )
            => Count(k) >= Count(l)

Failures == OutcomeCount("rejected") + OutcomeCount("build_failed")

\* C22: the digest of one record or more states the number of records as the
\* total; lists every outcome once with the number of records that have it,
\* the counts never increasing and adding up to the total; states as failures
\* the number of records rejected plus those whose build failed, out of the
\* total; and lists the five most frequent tags (all of them if fewer), each
\* with its frequency, the frequencies never increasing.
C22_Statistics ==
    ( DigestDone /\ digest_records # <<>> ) =>
        LET total == Len(digest_records)
            OutcomeShown(k, n) == "  - " \o k \o ": " \o Str(n) \o " ("
            OutcomePart(line) ==
                SubSeq(line, 1, CHOOSE i \in 1..Len(line) : CharAt(line, i) = "(")
            outcome_items == ItemsUnder(DigestText, "**Outcome Distribution**:")
            TagShown(k, n) == "  - " \o k \o ": " \o Str(n)
            tag_items == ItemsUnder(DigestText, "**Common Tech Stacks**:")
        IN  /\ DigestText[1] = "**Total Ideas Completed**: " \o Str(total)
            /\ Len(outcome_items) = Cardinality(OutcomesPresent)
            /\ ListsByCount([ i \in DOMAIN outcome_items |-> OutcomePart(outcome_items[i]) ],
                            OutcomesPresent, OutcomeCount, OutcomeShown)
            /\ \E i \in DOMAIN DigestText :
                /\ StartsWith(DigestText[i], "**Failure Rate**: ")
                /\ EndsWith(DigestText[i],
                            "% (" \o Str(Failures) \o "/" \o Str(total) \o ")")
            /\ Failures <= total
            /\ Len(tag_items) = MinOf(TopTags, Cardinality(TagsPresent))
            /\ ListsByCount(tag_items, TagsPresent, TagCount, TagShown)

\* A digest of records with more than five tags, whose most frequent outcome
\* is not that of the first record, some of them failures.
C22_Witness ==
    /\ DigestDone
    /\ Len(digest_records) = MaxRecords
    /\ Cardinality(TagsPresent) > TopTags
    /\ \E k \in OutcomesPresent : OutcomeCount(k) > OutcomeCount(digest_records[1].outcome)
    /\ Failures > 0
    /\ Len(ItemsUnder(DigestText, "**Common Tech Stacks**:")) = TopTags

(***************************************************************************)
(* Properties of the report writer.                                        *)
(***************************************************************************)
LastCall == report_calls[Len(report_calls)]

ReportPath(date) == date \o "-sky-lynx-report.md"

SidecarPath(date) == date \o "-sky-lynx-recommendations.json"

\* Line j of the text is the numbered line of a recommendation titled title.
IsTitleLine(text, j, title) ==
    \E n \in 1..Len(text) : text[j] = Str(n) \o ". **" \o title \o "**"

\* The heading line nearest above line j.
HeadingAbove(text, j) ==
    LET above == { h \in 1..(j - 1) : StartsWith(text[h], "#") }
    IN  IF above = {} THEN ""
        ELSE text[CHOOSE h \in above : \A g \in above : g <= h]

PriorityHeading(priority) == "### " \o TitleCased(priority) \o " Priority"

PriorityRank(heading) ==
    CASE heading = "### High Priority" -> 1
      [] heading = "### Medium Priority" -> 2
      [] heading = "### Low Priority" -> 3
      [] OTHER -> 0

\* The report lists each of recs once under the heading of its priority, the
\* headings in the order High, Medium, Low, and the recommendations of one
\* priority in the order of recs.
ListsRecommendations(text, recs) ==
    /\ \A i \in DOMAIN recs :
        LET at == { j \in DOMAIN text : IsTitleLine(text, j, recs[i].title) }
        IN  /\ Cardinality(at)
                = Cardinality({ k \in DOMAIN recs : recs[k].title = recs[i].title })
            /\ \A j \in at : \E k \in DOMAIN recs :
                /\ recs[k].title = recs[i].title
                /\ HeadingAbove(text, j) = PriorityHeading(recs[k].priority)
    /\ \A g, h \in DOMAIN text :
        ( g < h /\ PriorityRank(text[g]) > 0 /\ PriorityRank(text[h]) > 0 )
            => PriorityRank(text[g]) < PriorityRank(text[h])
    /\ \A i, k \in DOMAIN recs :
        ( i < k /\ recs[i].priority = recs[k].priority /\ recs[i].title # recs[k].title )
            => \A j, l \in DOMAIN text :
                ( IsTitleLine(text, j, recs[i].title)
                  /\ IsTitleLine(text, l, recs[k].title) ) => j < l

\* C25: a call of write_weekly_report with one recommendation or more raises
\* nothing and returns the path of the report, a file that lists every
\* recommendation's title once under the heading of its priority, the headings
\* in the order High, Medium, Low and each group in the order of the list.
C25_ReportWithRecommendations ==
    ( /\ report_calls # <<>>
      /\ LastCall.function = "write_weekly_report"
      /\ LastCall.recommendations # <<>> ) =>
        /\ report_return.raised = None
        /\ report_return.value = Some(ReportPath(LastCall.date))
        /\ ReportPath(LastCall.date) \in DOMAIN disk
        /\ ListsRecommendations(TextLines(disk[ReportPath(LastCall.date)]),
                                LastCall.recommendations)

TitlesOf(recs) == [ i \in DOMAIN recs |-> recs[i].title ]

\* The recommendations of the store that carry the session id of date.
StoredFor(date) ==
    LET OfDate(r) == r.session_id = "sky-lynx-" \o date IN SelectSeq(store, OfDate)

\* C26: a call of write_recommendations_sidecar with one recommendation or more
\* writes the sidecar file anew with its recommendations and returns its path,
\* whether or not the store fails; and the store holds, for each date, the
\* recommendations of at most one call made with that date.
C26_StoreDeduplication ==
    /\ ( /\ report_calls # <<>>
         /\ LastCall.function = "write_recommendations_sidecar"
         /\ LastCall.recommendations # <<>> ) =>
            /\ report_return.raised = None
            /\ report_return.value = Some(SidecarPath(LastCall.date))
            /\ SidecarPath(LastCall.date) \in DOMAIN disk
            /\ TitlesOf(disk[SidecarPath(LastCall.date)])
                = TitlesOf(LastCall.recommendations)
    /\ \A date \in Dates :
        \/ StoredFor(date) = <<>>
        \/ \E k \in DOMAIN report_calls :
            /\ report_calls[k].date = date
            /\ TitlesOf(StoredFor(date)) = TitlesOf(report_calls[k].recommendations)

(***************************************************************************)
(* Properties of analyze_insights and of main.                             *)
(***************************************************************************)
\* main has returned.
MainDone == main_args # None /\ Args.entry = "main" /\ main_pc = "done"

\* A call of analyze_insights by name has returned or raised.
AnalyzeDone == main_args # None /\ Args.entry = "analyze_insights" /\ main_pc = "done"

\* A key is given to the call or set in the environment.
HasCredential ==
    Args.api_key \notin { None, Some("") } \/ Args.env_key \notin { None, Some("") }

\* C23: when the outcome store holds records, the digest built from them is
\* taken by the analysis call: the call does not fail on it, a dry run still
\* gets the mock result, and a request sent to the service has the digest in
\* its prompt.
C23_DigestDataFlow ==
    ( MainDone /\ outcome_digest # None ) =>
        /\ raised # Some("TypeError")
        /\ Args.dry_run => analysis_result = Some(MockResult)
        /\ ( ~Args.dry_run /\ HasCredential ) =>
            /\ requests # <<>>
            /\ \A i \in DOMAIN requests : Contains(requests[i], outcome_digest[1])

\* C24: a request goes to the analysis service only when dry_run is false and
\* a key is given or set; analyze_insights with dry_run true returns the mock
\* result and sends nothing, with or without a key; with dry_run false and no
\* key it raises ValueError and sends nothing, and main then returns 1 with no
\* report written and no PR created.
C24_RequestOnlyWithCredential ==
    main_args # None =>
        /\ requests # <<>> => ( ~Args.dry_run /\ HasCredential )
        /\ AnalyzeDone =>
            /\ Args.dry_run =>
                /\ raised = None
                /\ analysis_result = Some(MockResult)
                /\ requests = <<>>
            /\ ( ~Args.dry_run /\ ~HasCredential ) =>
                /\ raised = Some("ValueError")
                /\ analysis_result = None
                /\ requests = <<>>
        /\ ( MainDone /\ ~Args.dry_run /\ ~HasCredential ) =>
            /\ exit_code = Some(1)
            /\ \A i \in DOMAIN steps : steps[i] \notin { "report", "pr" }
            /\ DOMAIN disk = {}

\* analyze_insights was called without dry_run and without a key, given or
\* set, and raised ValueError.
C24_Witness ==
    /\ AnalyzeDone
    /\ ~Args.dry_run
    /\ ~HasCredential
    /\ raised = Some("ValueError")
    /\ requests = <<>>

C28_NoRecordOutside ==
    ( rec_pc \in { "scan", "done" } /\ ~in_recommendations ) => current_rec = None

\* The scan has left the section with a recommendation appended and has a
\* line yet to read outside the section.
C28_Witness ==
    /\ Scanning
    /\ ~in_recommendations
    /\ line_no > 1
    /\ HasAny(lines[line_no - 1], {"working well"})
    /\ recommendations # <<>>
    /\ current_rec = None

\* Whether the scan is inside the section when it has read the first n lines.
RECURSIVE InsideAfter(_, _)
InsideAfter(text, n) ==
    IF n = 0 THEN FALSE
    ELSE IF HeadingLike(text[n]) THEN TRUE
    ELSE IF HasAny(text[n], {"working well"}) THEN FALSE
    ELSE InsideAfter(text, n - 1)

\* The line numbers of the lines that start a recommendation.
StartingLines(text) ==
    { i \in DOMAIN text :
        /\ InsideAfter(text, i - 1)
        /\ ~HeadingLike(text[i])
        /\ ~HasAny(text[i], {"working well"})
        /\ StartLike(text[i]) }

\* The k-th smallest number of a set of numbers.
Kth(S, k) == CHOOSE i \in S : Cardinality({ j \in S : j < i }) = k - 1

\* What ends the recommendation started at line i: a later starting line, the
\* line that ends the section, or the end of the text.
FinalizedBy(text, i) ==
    IF \A j \in i + 1 .. Len(text) : InsideAfter(text, j) /\ j \notin StartingLines(text)
    THEN "end of input"
    ELSE LET j == Kth({ k \in i + 1 .. Len(text) :
                           ~InsideAfter(text, k) \/ k \in StartingLines(text) }, 1)
         IN  IF InsideAfter(text, j) THEN "starting line" ELSE "section exit"

\* C29: the returned list has one recommendation for every line that started
\* one, in the order of these lines: its length is the number of starting
\* lines, and its k-th recommendation has the title made from the k-th
\* starting line.
C29_ExactlyOnce ==
    Parsed =>
        /\ Len(recommendations) = Cardinality(StartingLines(lines))
        /\ \A k \in DOMAIN recommendations :
              recommendations[k].title = MarkersStripped(lines[Kth(StartingLines(lines), k)])

\* Two recommendations were started; the first was finalized by the second
\* starting line and the second by the end of the text, and both are returned.
C29_Witness ==
    /\ Parsed
    /\ StartingLines(lines) = { 2, 4 }
    /\ FinalizedBy(lines, 2) = "starting line"
    /\ FinalizedBy(lines, 4) = "end of input"
    /\ Len(recommendations) = 2
    /\ recommendations[1].title # recommendations[2].title

(***************************************************************************)
(* Properties of the week windows.                                         *)
(***************************************************************************)
WeeksLoaded == week_pc = "done"

\* Both windows are those of the week the clock is in: it did not pass a
\* Sunday midnight between its two readings.
SameWeek == week_bounds.current[1] = get_current_week_bounds(week_now)

\* The last instant of the Saturday that ends the current week.
EndOfSaturday == week_bounds.current[1][1] + Week - 1

\* C30: the previous-week window ends before the current-week window starts,
\* and a session file modified between the start of the previous-week window
\* and the end of the current Saturday is found by the load of exactly one of
\* the two windows.
C30_WeeksPartition ==
    WeeksLoaded =>
        /\ week_bounds.previous[1][2] < week_bounds.current[1][1]
        /\ ( week_bounds.previous[1][1] <= week_mtime /\ week_mtime <= EndOfSaturday )
            => Cardinality(week_counted) = 1

\* The windows computed within one week do not overlap: the previous one ends
\* one second before the current one starts.
WindowsOfOneWeekDisjoint ==
    ( WeeksLoaded /\ SameWeek ) =>
        week_bounds.previous[1][2] + Second = week_bounds.current[1][1]

\* A file modified in the last second of a Saturday, after 23:59:59, is found
\* by neither load.
FileInNoWindow ==
    /\ WeeksLoaded
    /\ SameWeek
    /\ week_bounds.previous[1][1] <= week_mtime
    /\ week_mtime <= EndOfSaturday
    /\ week_counted = {}

=============================================================================
